---- MODULE Spec2Model ----
(***************************************************************************)
(* The stored-queue messages inbox of hyperborealib                        *)
(* (src/src/drivers/server/messages_inbox/stored_queue.rs) as a state      *)
(* machine over the files it keeps: one directory per (receiver, channel), *)
(* holding a binary `index` file and one file per message id.              *)
(*                                                                         *)
(* add_message and poll_messages are async functions.  Every `.await` on a *)
(* tokio::fs call is a suspension point, so each function is modelled as   *)
(* the sequence of its file operations: one action per file operation,     *)
(* together with the code that runs from it to the next file operation.    *)
(***************************************************************************)
EXTENDS Integers, Sequences, FiniteSets, TLC

VARIABLES
    index,      \* folder -> its `index` file: File(bytes) or Absent
    files,      \* folder -> (message id -> the file named by the id: File(content) or Absent)
    task,       \* handler task -> its position and local variables
    drawn,      \* the ids safe_random_u64() has returned so far
    started,    \* number of add_message calls started so far; also the clock timestamp() reads
    polled,     \* number of poll_messages calls started so far
    added,      \* history: folder -> the adds that returned Ok, in that order
    delivered,  \* history: folder -> what the polls returned in Ok results, in that order
    last,       \* history: the call that ended last
    router,     \* the maps of the router
    request,    \* handler task -> the send or poll request it is handling
    response,   \* history: the reply made last, with the request it answers
    requests,   \* number of requests received so far
    conversion, \* the value a conversion is applied to, with its results so far
    forwarded,  \* UpnpPortForwarder: (port, protocol) -> the config of the forward
    gateway,    \* the port mappings the gateway holds
    created,    \* history: (port, protocol) -> the mappings its opens created
                \* whose deletion has not been requested since
    forward     \* history: the port forwarder call that returned last

vars == <<index, files, task, drawn, started, polled, added, delivered, last,
          router, request, response, requests,
          conversion, forwarded, gateway, created, forward>>

\* The state of the conversions.
conversion_vars == <<conversion>>

\* The state of the port forwarder.
forward_vars == <<forwarded, gateway, created, forward>>

\* The state of the server around the inbox.
server_vars == <<router, request, response, requests>>

history == <<added, delivered, last>>

----------------------------------------------------------------------------
(* Bounds and inputs *)

\* add_message calls started in one behaviour.
MaxAdds == 2

\* poll_messages calls started in one behaviour.
MaxPolls == 2

\* Calls started in one behaviour of two tasks.
MaxCalls == 3

\* Handler tasks that may run at the same time.
Tasks == {1, 2}

\* The values safe_random_u64() draws from: one for every add_message.
Ids == 1..MaxAdds

Receivers == {"r1"}

\* Channel names: any String the caller gives.
Channels == {"a", "b", "a/."}

Senders == {"s1"}

Messages == {"m1", "m2"}

\* Option<u64>: None is the empty sequence, Some(k) the sequence <<k>>.
None == <<>>

Some(k) == <<k>>

\* limit: Option<u64>
Limits == {None, Some(0), Some(1), Some(2)}

\* The result of reading a path: Absent when there is no such file (the read
\* returns Err), otherwise File(content).
Absent == <<>>

File(content) == <<content>>

Exists(file) == file # Absent

Content(file) == file[1]

----------------------------------------------------------------------------
(* Paths *)

\* The components of a channel name when it is used as a relative path.
Components(channel) ==
    CASE channel = "a"   -> <<"a">>
      [] channel = "b"   -> <<"b">>
      [] channel = "a/." -> <<"a", ".">>

\* The directory a path names: the file system resolves "." to the directory
\* itself.
RECURSIVE Resolve(_)
Resolve(path) ==
    IF path = <<>> THEN <<>>
    ELSE LET init == Resolve(SubSeq(path, 1, Len(path) - 1))
             name == path[Len(path)]
         IN  IF name = "." THEN init ELSE Append(init, name)

\* storage_folder.join(receiver.to_base64()).join(&channel)
Folder(receiver, channel) == Resolve(<<receiver>> \o Components(channel))

Folders == {Folder(r, c) : r \in Receivers, c \in Channels}

----------------------------------------------------------------------------
(* Bytes of the index file *)

\* Width of one index slot: a u64.
IdBytes == 8

\* The k low-order base-256 digits of n, most significant first.
RECURSIVE BeBytes(_, _)
BeBytes(n, k) ==
    IF k = 0 THEN <<>> ELSE Append(BeBytes(n \div 256, k - 1), n % 256)

\* A conversion that keeps the low-order byte only.
to_be_bytes_low_byte(message_id) == BeBytes(message_id, 1)

\* u64::to_be_bytes
to_be_bytes(message_id) == BeBytes(message_id, IdBytes)

\* u64::from_be_bytes
RECURSIVE from_be_bytes(_)
from_be_bytes(bytes) ==
    IF bytes = <<>> THEN 0
    ELSE from_be_bytes(SubSeq(bytes, 1, Len(bytes) - 1)) * 256 + bytes[Len(bytes)]

\* Chunks taken from the end of the index.
Chunk_from_end(bytes, shift) ==
    SubSeq(bytes, Len(bytes) - shift - IdBytes + 1, Len(bytes) - shift)

\* The chunk of index.chunks(8) that starts at byte offset shift.
Chunk(bytes, shift) ==
    SubSeq(bytes, shift + 1,
           IF shift + IdBytes <= Len(bytes) THEN shift + IdBytes ELSE Len(bytes))

\* &index[shift..]
Shifted(bytes, shift) == SubSeq(bytes, shift + 1, Len(bytes))

\* The ids an index file lists, slot by slot.
RECURSIVE Slots(_)
Slots(bytes) ==
    IF Len(bytes) < IdBytes THEN <<>>
    ELSE <<from_be_bytes(Chunk(bytes, 0))>> \o Slots(Shifted(bytes, IdBytes))

----------------------------------------------------------------------------
(* MessageInfo and its JSON form *)

\* Sender::to_json and Message::to_json: a JSON value that holds the value.
Sender_to_json(sender) == [sender_json |-> sender]

Sender_from_json(json) == json.sender_json

Message_to_json(message) == [message_json |-> message]

Message_from_json(json) == json.message_json

\* A to_json that writes the time under another key.
MessageInfo_to_json_renamed(info) ==
    [sender      |-> Sender_to_json(info.sender),
     channel     |-> info.channel,
     message     |-> Message_to_json(info.message),
     received    |-> info.received_at]

\* impl AsJson for MessageInfo: to_json
MessageInfo_to_json(info) ==
    [sender      |-> Sender_to_json(info.sender),
     channel     |-> info.channel,
     message     |-> Message_to_json(info.message),
     received_at |-> info.received_at]

\* impl AsJson for MessageInfo: from_json succeeds when every field is there.
MessageInfo_from_json_ok(json) ==
    {"sender", "channel", "message", "received_at"} \subseteq DOMAIN json

MessageInfo_from_json(json) ==
    [sender      |-> Sender_from_json(json.sender),
     channel     |-> json.channel,
     message     |-> Message_from_json(json.message),
     received_at |-> json.received_at]

\* serde_json::to_vec: the bytes of the JSON text.  A file that holds only a
\* part of the text is not complete.
to_vec(json) == [complete |-> TRUE, json |-> json]

\* serde_json::from_slice::<Json> succeeds on a complete JSON text only.
from_slice_ok(bytes) == bytes.complete

from_slice(bytes) == bytes.json

----------------------------------------------------------------------------
(* Handler tasks *)

Idle == [pc |-> "idle"]

Active(t) == task[t].pc # "idle"

\* The calls of other tasks that are in flight on the same folder.
Overlapping(t, folder) ==
    {u \in Tasks \ {t} : Active(u) /\ task[u].folder = folder}

\* Starting a call on a folder: the calls in flight on it overlap the new one.
Begin(t, call) ==
    [u \in Tasks |->
        IF u = t
        THEN [call EXCEPT !.ov = {task[v].op : v \in Overlapping(t, call.folder)}]
        ELSE IF u \in Overlapping(t, call.folder)
             THEN [task[u] EXCEPT !.ov = @ \cup {call.op}]
             ELSE task[u]]

\* The messages added to a folder and not yet returned by a poll.
Pending(folder) ==
    SubSeq(added[folder], Len(delivered[folder]) + 1, Len(added[folder]))

\* The record the history keeps of a call that has ended.
Ended(t, call, status, messages, remaining) ==
    [task      |-> t,
     op        |-> call.op,
     receiver  |-> call.receiver,
     channel   |-> call.channel,
     folder    |-> call.folder,
     limit     |-> call.limit,
     info      |-> call.info,
     ids       |-> call.ids,
     ov        |-> call.ov,
     pending   |-> call.pending,
     index     |-> call.index,
     present   |-> call.present,
     status    |-> status,
     messages  |-> messages,
     remaining |-> remaining]

NoCall ==
    [task |-> 0, op |-> "none", receiver |-> "", channel |-> "", folder |-> <<>>,
     limit |-> None, info |-> <<>>, ids |-> <<>>, ov |-> {}, pending |-> <<>>,
     index |-> <<>>, present |-> {}, status |-> "", messages |-> <<>>, remaining |-> 0]

\* A call ends: the history takes it up.
Return(ended) ==
    /\ last' = ended
    /\ added' = IF ended.op = "add" /\ ended.status = "Ok"
                THEN [added EXCEPT ![ended.folder] =
                        Append(@, [id |-> ended.ids[1], info |-> ended.info[1],
                                   receiver |-> ended.receiver, ov |-> ended.ov])]
                ELSE added
    /\ delivered' = IF ended.op = "poll" /\ ended.status = "Ok"
                    THEN [delivered EXCEPT ![ended.folder] =
                            @ \o [i \in 1..Len(ended.ids) |->
                                    [id |-> ended.ids[i], info |-> ended.messages[i],
                                     receiver |-> ended.receiver, ov |-> ended.ov]]]
                    ELSE delivered

\* timestamp(): the clock.
timestamp == started

\* limit.unwrap_or(u64::MAX); U64_MAX stands for u64::MAX = 2^64 - 1.
U64_MAX == 2147483647

unwrap_or(option, default) == IF option = None THEN default ELSE option[1]

----------------------------------------------------------------------------
(* add_message, stored_queue.rs lines 49-90 *)

\* Lines 64-68: the call starts and creates the folder.
add_message(t, sender, receiver, channel, message) ==
    /\ ~Active(t)
    /\ started < MaxAdds
    /\ started' = started + 1
    /\ task' = Begin(t, [pc         |-> "add_read_index",
                         op         |-> "add",
                         receiver   |-> receiver,
                         channel    |-> channel,
                         folder     |-> Folder(receiver, channel),
                         limit      |-> None,
                         info       |-> <<[sender |-> sender, channel |-> channel,
                                           message |-> message, received_at |-> 0]>>,
                         message_id |-> 0,
                         index      |-> <<>>,
                         data       |-> <<>>,
                         ids        |-> <<>>,
                         pending    |-> Pending(Folder(receiver, channel)),
                         present    |-> {},
                         ov         |-> {}])
    /\ UNCHANGED <<index, files, drawn, polled, history>>

\* Mutant of Extended: the new id goes to the front of the index.
Extended_at_front(bytes, message_id) == to_be_bytes(message_id) \o bytes

\* The index with the new id appended (line 75).
Extended(bytes, message_id) == bytes \o to_be_bytes(message_id)

\* Lines 70-84: read the index (empty when the read fails), draw the id, append
\* it to the copy in memory, build and serialize the MessageInfo.
add_read_index(t) ==
    /\ task[t].pc = "add_read_index"
    /\ \E message_id \in Ids \ drawn :
          LET call == task[t]
              read == index[call.folder]
              bytes == IF Exists(read) THEN Content(read) ELSE <<>>
              message_info == [call.info[1] EXCEPT !.received_at = timestamp]
          IN  /\ task' = [task EXCEPT ![t] =
                            [call EXCEPT !.pc = "add_write_index",
                                         !.message_id = message_id,
                                         !.ids = <<message_id>>,
                                         !.index = Extended(bytes, message_id),
                                         !.info = <<message_info>>,
                                         !.data = <<to_vec(MessageInfo_to_json(message_info))>>]]
              /\ drawn' = drawn \cup {message_id}
    /\ UNCHANGED <<index, files, started, polled, history>>

\* Line 86: write the index file.
add_write_index(t) ==
    /\ task[t].pc = "add_write_index"
    /\ index' = [index EXCEPT ![task[t].folder] = File(task[t].index)]
    /\ task' = [task EXCEPT ![t].pc = "add_write_message"]
    /\ UNCHANGED <<files, drawn, started, polled, history>>

\* Lines 87-89: write the message file and return Ok(()).
add_write_message(t) ==
    /\ task[t].pc = "add_write_message"
    /\ files' = [files EXCEPT ![task[t].folder][task[t].message_id] = File(task[t].data[1])]
    /\ Return(Ended(t, task[t], "Ok", <<>>, 0))
    /\ task' = [task EXCEPT ![t] = Idle]
    /\ UNCHANGED <<index, drawn, started, polled>>

----------------------------------------------------------------------------
(* poll_messages, stored_queue.rs lines 92-154 *)

\* Line 111: assert!(index.len() % 8 == 0)
IndexAssertion(bytes) == Len(bytes) % IdBytes = 0

\* Mutant of LoopContinues: the loop does not look at limit.
LoopContinues_without_limit(bytes, position, limit) == position < Len(bytes)

\* Lines 119-122: the loop goes on while a chunk is left and limit is not 0.
\* position is the offset of the next chunk of index.chunks(8).
LoopContinues(bytes, position, limit) == position < Len(bytes) /\ limit # 0

\* The file operation the loop head leads to: the read of the next message
\* file, or after the loop the write of the index.
LoopHead(bytes, position, limit) ==
    IF LoopContinues(bytes, position, limit) THEN "poll_read_message" ELSE "poll_write_index"

\* The chunk iterator moves on to the next chunk.
NextChunk(position) == position + IdBytes

\* Mutant of Advance: shift moves on only when the message file was found.
Advance_when_found(shift, found) == IF found THEN shift + IdBytes ELSE shift

\* Line 139: shift += 8, whether the message file was found or not.
Advance(shift, found) == shift + IdBytes

\* Mutant of Decrement: a message read is not counted.
Decrement_not_counted(limit) == limit

\* Line 134: limit -= 1
Decrement(limit) == limit - 1

\* Lines 106-117: the call starts and reads the index.  When the read fails
\* the call returns Ok((vec![], 0)) (line 152); when the assertion fails the
\* task panics.
poll_read_index(t, receiver, channel, limit) ==
    /\ ~Active(t)
    /\ LET folder == Folder(receiver, channel)
           read == index[folder]
           call == [pc         |-> "poll_read_index",
                    op         |-> "poll",
                    receiver   |-> receiver,
                    channel    |-> channel,
                    folder     |-> folder,
                    limit      |-> limit,
                    info       |-> <<>>,
                    message_id |-> 0,
                    index      |-> IF Exists(read) THEN Content(read) ELSE <<>>,
                    limit_left |-> unwrap_or(limit, U64_MAX),
                    position   |-> 0,
                    shift      |-> 0,
                    messages   |-> <<>>,
                    ids        |-> <<>>,
                    pending    |-> Pending(folder),
                    present    |-> {i \in Ids : Exists(files[folder][i])},
                    ov         |-> {}]
           began == Begin(t, call)
       IN  IF ~Exists(read)
           THEN /\ Return(Ended(t, began[t], "Ok", <<>>, 0))
                /\ task' = [began EXCEPT ![t] = Idle]
           ELSE IF ~IndexAssertion(call.index)
           THEN /\ Return(Ended(t, began[t], "Panic", <<>>, 0))
                /\ task' = [began EXCEPT ![t] = Idle]
           ELSE /\ task' = [began EXCEPT
                              ![t].pc = LoopHead(call.index, call.position, call.limit_left)]
                /\ UNCHANGED history
    /\ UNCHANGED <<index, files, drawn, started>>

\* One of the poll_messages calls of a behaviour.
poll_messages(t, receiver, channel, limit) ==
    /\ polled < MaxPolls
    /\ polled' = polled + 1
    /\ poll_read_index(t, receiver, channel, limit)

\* Lines 124-134 and 139: read the message file of the next slot.  When the
\* file is there, decode it (an error returns Err), push the message and take
\* one off limit; when it is not, go on to the next slot.
poll_read_message(t) ==
    /\ task[t].pc = "poll_read_message"
    /\ LET call == task[t]
           message_id == from_be_bytes(Chunk(call.index, call.position))
           read == IF message_id \in Ids THEN files[call.folder][message_id] ELSE Absent
       IN  IF Exists(read)
           THEN IF from_slice_ok(Content(read))
                   /\ MessageInfo_from_json_ok(from_slice(Content(read)))
                THEN /\ task' = [task EXCEPT ![t] =
                                   [call EXCEPT
                                      !.pc = "poll_remove_file",
                                      !.message_id = message_id,
                                      !.ids = Append(@, message_id),
                                      !.messages = Append(@,
                                          MessageInfo_from_json(from_slice(Content(read)))),
                                      !.limit_left = Decrement(@)]]
                     /\ UNCHANGED history
                ELSE /\ Return(Ended(t, call, "Err", <<>>, 0))
                     /\ task' = [task EXCEPT ![t] = Idle]
           ELSE /\ task' = [task EXCEPT ![t] =
                              [call EXCEPT
                                 !.shift = Advance(@, FALSE),
                                 !.position = NextChunk(@),
                                 !.pc = LoopHead(call.index, NextChunk(call.position),
                                                 call.limit_left)]]
                /\ UNCHANGED history
    /\ UNCHANGED <<index, files, drawn, started, polled>>

\* Mutant of remove_file_ok: removing a file that is not there is no error.
remove_file_ok_if_absent(file) == TRUE

\* tokio::fs::remove_file (line 136) returns Ok only when it removed the file.
remove_file_ok(file) == Exists(file)

\* Lines 136-139: remove the message file (an error returns Err) and go on to
\* the next slot.
poll_remove_file(t) ==
    /\ task[t].pc = "poll_remove_file"
    /\ LET call == task[t]
       IN  IF remove_file_ok(files[call.folder][call.message_id])
           THEN /\ files' = [files EXCEPT ![call.folder][call.message_id] = Absent]
                /\ task' = [task EXCEPT ![t] =
                              [call EXCEPT
                                 !.shift = Advance(@, TRUE),
                                 !.position = NextChunk(@),
                                 !.pc = LoopHead(call.index, NextChunk(call.position),
                                                 call.limit_left)]]
                /\ UNCHANGED history
           ELSE /\ Return(Ended(t, call, "Err", <<>>, 0))
                /\ task' = [task EXCEPT ![t] = Idle]
                /\ UNCHANGED files
    /\ UNCHANGED <<index, drawn, started, polled>>

\* Line 148: (index.len() / 8) as u64
Remaining(bytes) == Len(bytes) \div IdBytes

\* Lines 142-149: write the rest of the index and return it with the messages.
poll_write_index(t) ==
    /\ task[t].pc = "poll_write_index"
    /\ LET call == task[t]
           rest == Shifted(call.index, call.shift)
       IN  /\ index' = [index EXCEPT ![call.folder] = File(rest)]
           /\ Return(Ended(t, call, "Ok", call.messages, Remaining(rest)))
           /\ task' = [task EXCEPT ![t] = Idle]
    /\ UNCHANGED <<files, drawn, started, polled>>

----------------------------------------------------------------------------
(* Keys, signatures and the request envelope *)

\* The secret key of the server; a key pair is named by its public key.
ServerKey == "srv"

\* The public keys of the clients.
Keys == Receivers \cup {"r2"}

Ok(value) == [ok |-> TRUE, value |-> <<value>>]

Err == [ok |-> FALSE, value |-> <<>>]

\* SecretKey::create_signature: a signature names its signer and the data.
create_signature(secret_key, data) ==
    [wellformed |-> TRUE, signer |-> secret_key, data |-> data]

\* Bytes that are not the encoding of a signature.
Malformed == [wellformed |-> FALSE, signer |-> "", data |-> <<>>]

\* PublicKey::verify_signature: an error on bytes that are no signature, else
\* whether the signature is one of the key over the data.
verify_signature(public_key, data, signature) ==
    IF ~signature.wellformed THEN Err
    ELSE Ok(signature.signer = public_key /\ signature.data = data)

\* Request::validate: proof_sign verifies the 8 big-endian bytes of proof_seed
\* under public_key.
Request_validate(req) ==
    verify_signature(req.public_key, to_be_bytes(req.proof_seed),
                     req.proof_sign)

\* ConnectRequest::validate(server_public): the certificate is a signature of
\* the requester over the public key of the server, and the envelope is valid.
ConnectRequest_validate(req, server_public) ==
    LET certified == verify_signature(req.public_key, <<server_public>>,
                                      req.request.certificate)
    IN  IF ~certified.ok THEN Err
        ELSE IF ~certified.value[1] THEN Ok(FALSE)
        ELSE Request_validate(req)

\* Response::success and Response::error.
Response_success(status, public_key, proof, body) ==
    [status |-> status, public_key |-> <<public_key>>, proof_sign |-> <<proof>>,
     body |-> <<body>>]

Response_error(status) ==
    [status |-> status, public_key |-> <<>>, proof_sign |-> <<>>, body |-> <<>>]

\* Response::validate(proof_seed) of a success response.
Response_validate(resp, proof_seed) ==
    verify_signature(resp.public_key[1], to_be_bytes(proof_seed),
                     resp.proof_sign[1])

\* DisconnectResponse::success, and the success constructors of the other
\* verbs, which differ in the body only.
success(status, server_secret, proof_seed, body) ==
    LET proof == create_signature(server_secret, to_be_bytes(proof_seed))
    IN  Response_success(status, server_secret, proof, body)

----------------------------------------------------------------------------
(* The router *)

ClientTypes == {"Thin", "Thick"}

\* The public keys of the peer servers.
Servers == {"sv1", "sv2"}

\* Client::new(public_key, certificate, info); info is the client type.
Client(public_key, certificate, info) ==
    [public_key |-> public_key, certificate |-> certificate, info |-> info]

\* A router that has indexed nothing.
EmptyRouter ==
    [local_clients  |-> [k \in Keys |-> None],
     remote_clients |-> [k \in Keys |-> None],
     servers        |-> {}]

\* The type filter of the lookups.
TypeMatches(client_type, client) ==
    client_type = "Thin" \/ client_type = client.info

index_local_client(r, client) ==
    [r EXCEPT !.local_clients[client.public_key] = Some(client),
              !.remote_clients[client.public_key] = None]

disconnect(r, public_key) ==
    [r EXCEPT !.local_clients[public_key] = None]

local_clients(r) ==
    {r.local_clients[k][1] : k \in {k \in Keys : r.local_clients[k] # None}}

\* A router that takes up every announced record.
index_remote_client_always(r, client, srv) ==
    [r EXCEPT !.remote_clients[client.public_key] =
                   Some([client |-> client, server |-> srv])]

index_remote_client(r, client, srv) ==
    IF r.local_clients[client.public_key] # None THEN r
    ELSE [r EXCEPT !.remote_clients[client.public_key] =
                        Some([client |-> client, server |-> srv])]

index_server(r, srv) == [r EXCEPT !.servers = @ \cup {srv}]

servers(r) == r.servers

\* Option<(Client, bool)>: None when the router has no record of the key.
lookup_local_client(r, public_key, client_type) ==
    IF r.local_clients[public_key] = None THEN None
    ELSE Some([client    |-> r.local_clients[public_key][1],
               available |-> TypeMatches(client_type, r.local_clients[public_key][1])])

\* Option<(Client, Server, bool)>
lookup_remote_client(r, public_key, client_type) ==
    IF r.remote_clients[public_key] = None THEN None
    ELSE LET record == r.remote_clients[public_key][1]
         IN  Some([client    |-> record.client,
                   server    |-> record.server,
                   available |-> TypeMatches(client_type, record.client)])

\* The known servers, in a fixed order.
lookup_remote_client_hint(r, public_key, client_type) ==
    (IF "sv1" \in r.servers THEN <<"sv1">> ELSE <<>>)
    \o (IF "sv2" \in r.servers THEN <<"sv2">> ELSE <<>>)

\* A task that is not handling a send or poll request.
NoRequest == <<>>

\* No reply has been made yet.
NoResponse ==
    [verb |-> "none", request |-> <<>>, validated |-> Err, calls |-> <<>>,
     failed |-> FALSE, repeated |-> FALSE, response |-> Response_error("")]

----------------------------------------------------------------------------
(* The UPnP port forwarder, port_forward/upnp.rs *)

\* port: u16
Ports == {80, 443}

\* enum Protocol
Protocols == {"TCP", "UDP", "Both"}

\* duration.as_secs()
Durations == {30, 60}

\* The keys of the `forwarded` table: (u16, Protocol).
ForwardKeys == Ports \X Protocols

\* The port mappings a gateway can hold: a port with a PortMappingProtocol.
Mappings == Ports \X {"TCP", "UDP"}

\* UpnpPortForwarder::build_config
build_config(port, protocol, duration) ==
    [address  |-> None,
     port     |-> port,
     protocol |-> protocol,
     duration |-> duration,
     comment  |-> "Hyperborea UPnP port forwarder"]

\* The mapping a config asks the gateway for.
MappingOf(config) == <<config.port, config.protocol>>

\* A forwarder that has forwarded nothing, before a gateway that holds no
\* mapping.
NoForwards ==
    [forwarded |-> [k \in ForwardKeys |-> None],
     gateway   |-> {},
     created   |-> [k \in ForwardKeys |-> {}]]

\* The forwarder and the gateway as one value.
Forwarder == [forwarded |-> forwarded, gateway |-> gateway, created |-> created]

\* delete_ports requests the deletion of mappings: the history forgets them.
Requested(sets, mappings) == [k \in ForwardKeys |-> sets[k] \ mappings]

\* Lines 37-45: open for TCP or UDP.  add_ports asks the gateway for the
\* mapping; an error returns Err (`?`), else the config is inserted under
\* (port, protocol).
open_one(fw, port, protocol, duration, failing) ==
    IF failing THEN [fw |-> fw, result |-> Err]
    ELSE LET config == build_config(port, protocol, duration)
         IN  [fw |-> [forwarded |-> [fw.forwarded EXCEPT ![<<port, protocol>>] =
                                        Some(config)],
                      gateway   |-> fw.gateway \cup {MappingOf(config)},
                      created   |-> [fw.created EXCEPT ![<<port, protocol>>] =
                                        @ \cup {MappingOf(config)}]],
              result |-> Ok(TRUE)]

\* Lines 29-46: open.  Protocol::Both opens TCP and then UDP (line 34).
\* failing[1] and failing[2]: the first and the second add_ports call fail.
open(fw, port, protocol, duration, failing) ==
    IF protocol # "Both" THEN open_one(fw, port, protocol, duration, failing[1])
    ELSE LET tcp == open_one(fw, port, "TCP", duration, failing[1])
             udp == open_one(tcp.fw, port, "UDP", duration, failing[2])
         IN  IF ~tcp.result.ok THEN tcp
             ELSE IF ~udp.result.ok THEN udp
             ELSE [fw |-> [udp.fw EXCEPT !.created[<<port, "Both">>] =
                              @ \cup {<<port, "TCP">>, <<port, "UDP">>}],
                   result |-> Ok(tcp.result.value[1] /\ udp.result.value[1])]

\* Lines 48-59: close.  The entry of (port, protocol) is removed from the
\* table; when there was one, delete_ports asks the gateway to delete its
\* mapping, and an error returns Err (`?`).
close(fw, port, protocol, failing) ==
    LET entry == fw.forwarded[<<port, protocol>>]
        removed == [fw.forwarded EXCEPT ![<<port, protocol>>] = None]
    IN  IF entry = None THEN [fw |-> fw, result |-> Ok(TRUE)]
        ELSE [fw |-> [forwarded |-> removed,
                      gateway   |-> IF failing THEN fw.gateway
                                    ELSE fw.gateway \ {MappingOf(entry[1])},
                      created   |-> Requested(fw.created, {MappingOf(entry[1])})],
              result |-> IF failing THEN Err ELSE Ok(TRUE)]

\* Lines 61-72: discard.  The table is drained and delete_ports is asked to
\* delete every mapping; `deleted` are the mappings deleted before the first
\* error, all of them when there is none.
discard(fw, deleted) ==
    LET configs == {fw.forwarded[k][1] :
                        k \in {k \in ForwardKeys : fw.forwarded[k] # None}}
        mappings == {MappingOf(config) : config \in configs}
    IN  [fw |-> [forwarded |-> [k \in ForwardKeys |-> None],
                 gateway   |-> fw.gateway \ deleted,
                 created   |-> Requested(fw.created, mappings)],
         result |-> IF deleted = mappings THEN Ok(TRUE) ELSE Err]

\* No call of the forwarder has returned yet.
NoForward ==
    [op |-> "none", port |-> 0, protocol |-> "", result |-> Err, count |-> 0]

----------------------------------------------------------------------------
(* Specifications *)

\* No conversion is under way.
NoConversion == [of |-> "none"]

\* UpnpPortForwarder with an empty table.
InitForwarder ==
    /\ forwarded = NoForwards.forwarded
    /\ gateway = NoForwards.gateway
    /\ created = NoForwards.created
    /\ forward = NoForward

\* StoredQueueMessagesInbox::new on a fresh storage folder: no inbox exists.
InitServer ==
    /\ index = [f \in Folders |-> Absent]
    /\ files = [f \in Folders |-> [i \in Ids |-> Absent]]
    /\ task = [t \in Tasks |-> Idle]
    /\ drawn = {}
    /\ started = 0
    /\ polled = 0
    /\ added = [f \in Folders |-> <<>>]
    /\ delivered = [f \in Folders |-> <<>>]
    /\ last = NoCall
    /\ router = EmptyRouter
    /\ request = [t \in Tasks |-> NoRequest]
    /\ response = NoResponse
    /\ requests = 0

\* The state after construction.
Init ==
    /\ InitServer
    /\ InitForwarder
    /\ conversion = NoConversion

\* A call made by task t, with arguments from the given sets.
Call(t, channels, messages, limits) ==
    \/ \E sender \in Senders, receiver \in Receivers, channel \in channels,
          message \in messages :
            add_message(t, sender, receiver, channel, message)
    \/ \E receiver \in Receivers, channel \in channels, limit \in limits :
            poll_messages(t, receiver, channel, limit)

\* A file operation of task t completes and the task runs on to its next one.
Step(t) ==
    \/ add_read_index(t)
    \/ add_write_index(t)
    \/ add_write_message(t)
    \/ poll_read_message(t)
    \/ poll_remove_file(t)
    \/ poll_write_index(t)

\* Calls made one after another: each call ends before the next one starts.
Next ==
    /\ Call(1, {"a", "b"}, Messages, Limits) \/ Step(1)
    /\ UNCHANGED server_vars
    /\ UNCHANGED <<conversion_vars, forward_vars>>

Spec == Init /\ [][Next]_vars

\* The handler of task t is interrupted while it waits for a file operation:
\* its future is dropped, or the process stops.  The operations it has not
\* completed never happen.
Cancel(t) ==
    /\ Active(t)
    /\ Return(Ended(t, task[t], "Cancelled", <<>>, 0))
    /\ task' = [task EXCEPT ![t] = Idle]
    /\ UNCHANGED <<index, files, drawn, started, polled>>

\* Calls made one after another, any of which may be interrupted.
NextCrash ==
    /\ Call(1, {"a"}, Messages, Limits) \/ Step(1) \/ Cancel(1)
    /\ UNCHANGED server_vars
    /\ UNCHANGED <<conversion_vars, forward_vars>>

SpecCrash == Init /\ [][NextCrash]_vars

\* Calls of two handler tasks that overlap at their file operations.
NextConc ==
    /\ \E t \in Tasks :
          \/ started + polled < MaxCalls /\ Call(t, {"a"}, {"m1"}, Limits)
          \/ Step(t)
    /\ UNCHANGED server_vars
    /\ UNCHANGED <<conversion_vars, forward_vars>>

SpecConc == Init /\ [][NextConc]_vars

\* Calls made one after another on every channel name, the names that lead to
\* the same directory included.
NextChannels ==
    /\ Call(1, Channels, Messages, Limits) \/ Step(1)
    /\ UNCHANGED server_vars
    /\ UNCHANGED <<conversion_vars, forward_vars>>

SpecChannels == Init /\ [][NextChannels]_vars

----------------------------------------------------------------------------
(* Properties of calls made one after another *)

\* The MessageInfo records of a sequence of history entries.
Infos(entries) == [i \in 1..Len(entries) |-> entries[i].info]

IsPoll(call) == call.op = "poll"

\* A poll with limit Some(k), 0 < k < n, on an inbox that held n messages.
IsPartialPoll(call) ==
    /\ IsPoll(call)
    /\ call.limit # None
    /\ 0 < call.limit[1]
    /\ call.limit[1] < Len(call.pending)

\* The call that ends in this step follows the call `last` on the same key.
Follows ==
    /\ last' # last
    /\ last'.receiver = last.receiver
    /\ last'.channel = last.channel

\* C1: poll_messages(receiver, channel, None) returns Ok with exactly the
\* messages added to the inbox and not yet polled, in the order they were
\* added, and remaining = 0.
C1_PollNoneReturnsAllInOrder ==
    (IsPoll(last) /\ last.limit = None) =>
        /\ last.status = "Ok"
        /\ last.messages = Infos(last.pending)
        /\ last.remaining = 0

\* Two different messages were added to an empty inbox and a poll with limit
\* None has returned the two.
C1_Witness ==
    /\ IsPoll(last) /\ last.limit = None /\ last.status = "Ok"
    /\ Len(last.pending) = 2
    /\ Len(last.messages) = 2
    /\ last.messages[1].message # last.messages[2].message
    /\ Len(added[last.folder]) = 2

C2_PartialPoll ==
    IsPartialPoll(last) =>
        /\ last.status = "Ok"
        /\ last.messages = Infos(SubSeq(last.pending, 1, last.limit[1]))
        /\ last.remaining = Len(last.pending) - last.limit[1]

C2_FollowingPoll ==
    (IsPartialPoll(last) /\ Follows /\ IsPoll(last') /\ last'.limit = None) =>
        /\ last'.status = "Ok"
        /\ last'.messages =
             Infos(SubSeq(last.pending, last.limit[1] + 1, Len(last.pending)))
        /\ last'.remaining = 0

\* C2: on an inbox that holds n messages, a poll with limit Some(k), 0 < k < n,
\* returns the first k messages in the order they were added and remaining =
\* n - k, and the poll with limit None that follows it returns the other n - k
\* messages in order and remaining = 0.
C2_PartialThenRest == [][C2_PartialPoll' /\ C2_FollowingPoll]_vars

\* A poll with limit Some(1) on an inbox of two messages has returned the first,
\* and the poll with limit None that follows it has read the second and is
\* about to return.
C2_Witness ==
    /\ IsPartialPoll(last) /\ last.status = "Ok"
    /\ Len(last.pending) = 2 /\ Len(last.messages) = 1 /\ last.remaining = 1
    /\ task[1].pc = "poll_write_index"
    /\ task[1].limit = None
    /\ task[1].receiver = last.receiver /\ task[1].channel = last.channel
    /\ task[1].messages = <<last.pending[2].info>>

\* The steps of a call with limit Some(0) change no file.
C7_NoFileChanges ==
    (Active(1) /\ task[1].op = "poll" /\ task[1].limit = Some(0)) =>
        /\ files' = files
        /\ index' = index

C7_PollZero ==
    (IsPoll(last) /\ last.limit = Some(0)) =>
        /\ last.status = "Ok"
        /\ last.messages = <<>>
        /\ last.remaining = Len(last.pending)

C7_FollowingPoll ==
    (IsPoll(last) /\ last.limit = Some(0) /\ Follows /\ IsPoll(last')
     /\ last'.limit = None) =>
        /\ last'.status = "Ok"
        /\ last'.messages = Infos(last.pending)
        /\ last'.remaining = 0

\* C7: a poll with limit Some(0) on an inbox that holds n messages returns no
\* message and remaining = n and removes nothing: the poll with limit None that
\* follows it returns the n messages in order.
C7_LimitZeroRemovesNothing ==
    [][C7_PollZero' /\ C7_NoFileChanges /\ C7_FollowingPoll]_vars

\* A poll with limit Some(0) on an inbox of two messages has returned, and the
\* poll with limit None that follows it has read the two and is about to return.
C7_Witness ==
    /\ IsPoll(last) /\ last.limit = Some(0) /\ last.status = "Ok"
    /\ last.remaining = 2 /\ Len(last.pending) = 2
    /\ task[1].pc = "poll_write_index"
    /\ task[1].limit = None
    /\ task[1].receiver = last.receiver /\ task[1].channel = last.channel
    /\ task[1].messages = Infos(last.pending)

\* No add_message on the key (receiver, channel) has returned Ok.
NeverAdded(receiver, channel) ==
    \A f \in Folders : \A i \in 1..Len(added[f]) :
        ~(added[f][i].receiver = receiver /\ added[f][i].info.channel = channel)

\* C6: a poll on a (receiver, channel) to which no message was ever added
\* returns ([], 0), whatever the limit and whatever the other channels of the
\* receiver hold.
C6_NeverAddedPollsEmpty ==
    (IsPoll(last) /\ NeverAdded(last.receiver, last.channel)) =>
        /\ last.status = "Ok"
        /\ last.messages = <<>>
        /\ last.remaining = 0

----------------------------------------------------------------------------
(* Properties of overlapping and interrupted calls *)

Quiescent == \A t \in Tasks : ~Active(t)

\* The ids a sequence of history entries names.
IdsOf(entries) == {entries[i].id : i \in 1..Len(entries)}

\* The ids the index file of a folder lists.
Indexed(folder) ==
    IF Exists(index[folder]) THEN Slots(Content(index[folder])) ELSE <<>>

IndexedIds(folder) == {Indexed(folder)[i] : i \in 1..Len(Indexed(folder))}

\* C3: at-most-once delivery.  Whatever the overlap of add_message and
\* poll_messages calls on one inbox, no message is returned by two polls, or
\* twice by one: the ids of the messages the polls have returned are all
\* different.
C3_AtMostOnce ==
    \A f \in Folders : \A i, j \in 1..Len(delivered[f]) :
        i # j => delivered[f][i].id # delivered[f][j].id

\* Two polls overlap and each has read the same message file; one of them has
\* ended and returned the message.
C3_Witness ==
    /\ IsPoll(last) /\ last.status = "Ok" /\ "poll" \in last.ov
    /\ \E t \in Tasks :
          /\ Active(t) /\ task[t].op = "poll" /\ task[t].pc = "poll_remove_file"
          /\ task[t].folder = last.folder
          /\ \E i \in 1..Len(last.ids) : last.ids[i] = task[t].message_id

\* C4: two add_message calls on one inbox that overlap and both return Ok
\* leave both message ids in the index, each with its message file.
C4_NoLostIndexUpdate ==
    (/\ Quiescent
     /\ last.op = "add" /\ last.status = "Ok" /\ last.ov = {"add"}
     /\ Len(added[last.folder]) >= 2
     /\ added[last.folder][Len(added[last.folder]) - 1].ov = {"add"}) =>
        LET entries == added[last.folder]
            both == {entries[Len(entries)].id, entries[Len(entries) - 1].id}
        IN  /\ both \subseteq IndexedIds(last.folder)
            /\ \A id \in both : Exists(files[last.folder][id])

\* C5: an add_message that overlaps a poll_messages on the same inbox and
\* returns Ok is not lost: once both calls have ended, its message was
\* returned by a poll or its id is in the index.
C5_OverlappedAddNotLost ==
    (/\ Quiescent
     /\ last.op \in {"add", "poll"}
     /\ Len(added[last.folder]) >= 1
     /\ added[last.folder][Len(added[last.folder])].ov = {"poll"}
     /\ last.op = "poll" => last.ov = {"add"}
     /\ last.op = "add" => last.ov = {"poll"}) =>
        LET entries == added[last.folder]
            id == entries[Len(entries)].id
        IN  \/ id \in IndexedIds(last.folder)
            \/ id \in IdsOf(delivered[last.folder])

\* The elements of a sequence of ids that are in a set, in their order.
RECURSIVE Existing(_, _)
Existing(slots, present) ==
    IF slots = <<>> THEN <<>>
    ELSE (IF slots[1] \in present THEN <<slots[1]>> ELSE <<>>)
         \o Existing(Tail(slots), present)

\* The first k elements of a sequence, or all of it when it has fewer.
Take(seq, k) == SubSeq(seq, 1, IF k < Len(seq) THEN k ELSE Len(seq))

\* The MessageInfo that add_message stored under an id.
StoredInfo(folder, id) ==
    (CHOOSE e \in {added[folder][i] : i \in 1..Len(added[folder])} : e.id = id).info

\* C8: drain-with-skip.  A poll of an index that lists ids whose message file
\* is absent does not fail: it returns the messages whose files exist, in
\* index order, as many as the limit allows (an absent file does not count),
\* and neither the slots of absent files it passed before the limit was
\* reached nor the slots of the returned messages stay in the index.
C8_DrainWithSkip ==
    (IsPoll(last) /\ last.status # "Cancelled") =>
        LET slots == Slots(last.index)
            expected == Take(Existing(slots, last.present),
                             unwrap_or(last.limit, Len(slots)))
        IN  /\ last.status = "Ok"
            /\ last.ids = expected
            /\ last.messages =
                 [i \in 1..Len(expected) |-> StoredInfo(last.folder, expected[i])]
            /\ \A i \in 1..Len(slots) :
                 (/\ slots[i] \notin last.present
                  /\ Len(Existing(SubSeq(slots, 1, i - 1), last.present))
                        < unwrap_or(last.limit, Len(slots) + 1))
                 => slots[i] \notin IndexedIds(last.folder)
            /\ \A i \in 1..Len(expected) :
                 expected[i] \notin IndexedIds(last.folder)
            /\ Quiescent => last.remaining = Len(Indexed(last.folder))

\* A poll with limit Some(1) has met a slot whose message file is absent,
\* followed by a slot whose file exists, and has returned that message.
C8_Witness ==
    /\ IsPoll(last) /\ last.status = "Ok" /\ last.limit = Some(1)
    /\ Len(Slots(last.index)) = 2
    /\ Slots(last.index)[1] \notin last.present
    /\ last.ids = <<Slots(last.index)[2]>>
    /\ last.remaining = 0

\* C9: after an add_message was interrupted, the index references no id whose
\* message file was never written.
C9_IndexReferencesWrittenFiles ==
    (Quiescent /\ last.op = "add" /\ last.status = "Cancelled") =>
        \A f \in Folders : IndexedIds(f) \subseteq IdsOf(added[f])

\* C10: in every state in which no call is in flight, the length of every
\* index file is a multiple of 8 and its slots are the ids of the messages
\* added and not yet returned by a poll, in the order they were added.
C10_IndexListsPendingMessages ==
    Quiescent =>
        \A f \in Folders :
            Exists(index[f]) =>
                /\ IndexAssertion(Content(index[f]))
                /\ Indexed(f) = [i \in 1..Len(Pending(f)) |-> Pending(f)[i].id]

----------------------------------------------------------------------------
(* Independence of the inboxes of different keys *)

\* The call of task 1 that takes this step: the one in flight, or the one the
\* step starts.
ActingCall == IF Active(1) THEN task[1] ELSE task'[1]

\* C11: inboxes of distinct (receiver, channel) keys are independent.  A step
\* of add_message or poll_messages on one key leaves the index file and the
\* message files of every other key as they were.
C11_KeysIndependent ==
    [][\A receiver \in Receivers, channel \in Channels :
          (Active(1) \/ Active(1)') /\
          <<receiver, channel>> # <<ActingCall.receiver, ActingCall.channel>>
          => /\ index'[Folder(receiver, channel)] = index[Folder(receiver, channel)]
             /\ files'[Folder(receiver, channel)] = files[Folder(receiver, channel)]]_vars

----------------------------------------------------------------------------
(* The verb handlers of the server *)

\* The handler replies: the history takes up the reply, what validate
\* returned, the driver calls the handler made, whether the last of them
\* returned an error, and whether the request is the one answered just before.
Reply(verb, req, validated, calls, failed, reply) ==
    /\ response' = [verb |-> verb, request |-> <<req>>, validated |-> validated,
                    calls |-> calls, failed |-> failed,
                    repeated |-> (<<req>> = response.request),
                    response |-> reply]
    /\ requests' = requests + 1

\* A handler that goes on whatever validate returned.
Rejected_never(validated) == FALSE

\* validate returned an error, or false.
Rejected(validated) == ~validated.ok \/ ~validated.value[1]

\* The status of the reply to a request that is rejected:
\* `Err(err) => return ..::error(ResponseStatus::ServerError, ..)` and
\* `if !validated { return ..::error(ResponseStatus::RequestValidationFailed, ..) }`.
RejectionStatus(validated) ==
    IF ~validated.ok THEN "ServerError" ELSE "RequestValidationFailed"

Reject(verb, req, validated) ==
    Reply(verb, req, validated, <<>>, FALSE,
          Response_error(RejectionStatus(validated)))

\* The proof seed the reply is signed over: request.0.proof_seed.
ProofSeed_constant(req) == 0

ProofSeed(req) == req.proof_seed

\* The status of the reply once the driver call has returned.
StatusOf_always_success(failed) == "Success"

StatusOf(failed) == IF failed THEN "ServerError" ELSE "Success"

\* The reply to a request that validated, from the result of the driver call.
Answer(verb, req, validated, calls, failed, body) ==
    Reply(verb, req, validated, calls, failed,
          IF StatusOf(failed) = "Success"
          THEN success("Success", ServerKey, ProofSeed(req), body)
          ELSE Response_error(StatusOf(failed)))

\* Result::unwrap_or_default on the snapshot a router call returns.
unwrap_or_default(result) == IF result.ok THEN result.value[1] ELSE {}

\* ClientsResponse::new(clients) and ServersResponse::new(servers): the reply
\* is made of the list alone, it has no status other than success.
ListResponse_new(list) ==
    [status |-> "Success", public_key |-> <<>>, proof_sign |-> <<>>,
     body |-> <<list>>]

\* GET /api/v1/clients.  `failing`: the router call returns an error.
GetClients(failing) ==
    LET result == IF failing THEN Err ELSE Ok(local_clients(router))
        clients == unwrap_or_default(result)
    IN  /\ Reply("clients", [verb |-> "clients"], Ok(TRUE), <<"local_clients">>,
                 failing, ListResponse_new(clients))
        /\ UNCHANGED <<router, request>>

\* GET /api/v1/servers
GetServers(failing) ==
    LET result == IF failing THEN Err ELSE Ok(servers(router))
        list == unwrap_or_default(result)
    IN  /\ Reply("servers", [verb |-> "servers"], Ok(TRUE), <<"servers">>,
                 failing, ListResponse_new(list))
        /\ UNCHANGED <<router, request>>

EmptyBody == [empty |-> TRUE]

\* A handler that records a client that connects again with another type.
NewClient_marking_reconnect(req) ==
    Client(req.public_key, req.request.certificate,
           IF router.local_clients[req.public_key] = None
           THEN req.request.client ELSE "Thin")

\* The record the connect handler indexes:
\* Client::new(request.0.public_key, request.0.request.certificate,
\*             request.0.request.client)
NewClient(req) ==
    Client(req.public_key, req.request.certificate, req.request.client)

\* POST /api/v1/connect
PostConnect(req, failing) ==
    LET validated == ConnectRequest_validate(req, ServerKey)
        client == NewClient(req)
    IN  /\ IF Rejected(validated)
           THEN /\ Reject("connect", req, validated)
                /\ router' = router
           ELSE /\ router' = IF failing THEN router
                              ELSE index_local_client(router, client)
                /\ Answer("connect", req, validated, <<"index_local_client">>,
                          failing, EmptyBody)
        /\ UNCHANGED request

\* The key the disconnect handler passes to the router: &request.0.public_key.
DisconnectKey_first(req) == CHOOSE k \in Keys : TRUE

DisconnectKey(req) == req.public_key

\* POST /api/v1/disconnect
PostDisconnect(req, failing) ==
    LET validated == Request_validate(req)
    IN  /\ IF Rejected(validated)
           THEN /\ Reject("disconnect", req, validated)
                /\ router' = router
           ELSE /\ router' = IF failing THEN router
                              ELSE disconnect(router, DisconnectKey(req))
                /\ Answer("disconnect", req, validated, <<"disconnect">>,
                          failing, EmptyBody)
        /\ UNCHANGED request

\* POST /api/v1/announce
PostAnnounce(req, failing) ==
    LET validated == Request_validate(req)
        body == req.request
    IN  /\ IF Rejected(validated)
           THEN /\ Reject("announce", req, validated)
                /\ router' = router
           ELSE IF body.announced = "Client"
           THEN /\ router' = IF failing THEN router
                              ELSE index_remote_client(router, body.client, body.server)
                /\ Answer("announce", req, validated, <<"index_remote_client">>,
                          failing, EmptyBody)
           ELSE /\ router' = IF failing THEN router
                              ELSE index_server(router, body.server)
                /\ Answer("announce", req, validated, <<"index_server">>,
                          failing, EmptyBody)
        /\ UNCHANGED request

\* LookupResponseBody::local, ::remote and ::hint
LookupResponseBody_local(client, available) ==
    [kind |-> "Local", client |-> client, available |-> available]

LookupResponseBody_remote(client, srv, available) ==
    [kind |-> "Remote", client |-> client, server |-> srv, available |-> available]

LookupResponseBody_hint(hint) == [kind |-> "Hint", servers |-> hint]

\* `Ok(Some((client, available))) =>` of the match on lookup_local_client and
\* of the match on lookup_remote_client: the arm takes every record found.
Found(found) == found # None

\* POST /api/v1/lookup.  `failing`: the router call that returns an error, if
\* any.  The key looked up is request.0.public_key.
PostLookup(req, failing) ==
    LET validated == Request_validate(req)
        client_type == req.request.client_type
        local == lookup_local_client(router, req.public_key, client_type)
        remote == lookup_remote_client(router, req.public_key, client_type)
        hint == lookup_remote_client_hint(router, req.public_key, client_type)
        l == <<"lookup_local_client">>
        lr == <<"lookup_local_client", "lookup_remote_client">>
        lrh == <<"lookup_local_client", "lookup_remote_client",
                 "lookup_remote_client_hint">>
    IN  /\ IF Rejected(validated)
           THEN Reject("lookup", req, validated)
           ELSE IF failing = "lookup_local_client"
           THEN Answer("lookup", req, validated, l, TRUE, EmptyBody)
           ELSE IF Found(local)
           THEN Answer("lookup", req, validated, l, FALSE,
                       LookupResponseBody_local(local[1].client, local[1].available))
           ELSE IF failing = "lookup_remote_client"
           THEN Answer("lookup", req, validated, lr, TRUE, EmptyBody)
           ELSE IF Found(remote)
           THEN Answer("lookup", req, validated, lr, FALSE,
                       LookupResponseBody_remote(remote[1].client, remote[1].server,
                                                 remote[1].available))
           ELSE IF failing = "lookup_remote_client_hint"
           THEN Answer("lookup", req, validated, lrh, TRUE, EmptyBody)
           ELSE Answer("lookup", req, validated, lrh, FALSE,
                       LookupResponseBody_hint(hint))
        /\ UNCHANGED <<router, request>>

\* PollResponseBody::new(messages, remaining)
PollResponseBody_new(messages, remaining) ==
    [messages |-> messages, remaining |-> remaining]

\* The receiver whose inbox the poll handler reads: request.0.public_key.
PollReceiver(req) == req.public_key

\* The inbox call of a send or poll handler has returned: the handler replies.
Finish(t, req) ==
    Answer(req.verb, req, Request_validate(req),
           <<IF req.verb = "send" THEN "add_message" ELSE "poll_messages">>,
           last'.status # "Ok",
           IF req.verb = "send" THEN EmptyBody
           ELSE PollResponseBody_new(last'.messages, last'.remaining))

\* POST /api/v1/send: up to the first file operation of add_message.
PostSend(t, req) ==
    LET validated == Request_validate(req)
    IN  /\ ~Active(t)
        /\ IF Rejected(validated)
           THEN /\ Reject("send", req, validated)
                /\ UNCHANGED <<index, files, task, drawn, started, polled,
                               history, request>>
           ELSE /\ add_message(t, req.request.sender, req.request.receiver_public,
                               req.request.channel, req.request.message)
                /\ request' = [request EXCEPT ![t] = <<req>>]
                /\ UNCHANGED <<response, requests>>
        /\ router' = router

\* POST /api/v1/poll: up to the first file operation of poll_messages that
\* follows the read of the index.
PostPoll(t, req) ==
    LET validated == Request_validate(req)
    IN  /\ ~Active(t)
        /\ IF Rejected(validated)
           THEN /\ Reject("poll", req, validated)
                /\ UNCHANGED <<index, files, task, drawn, started, polled,
                               history, request>>
           ELSE /\ poll_messages(t, PollReceiver(req), req.request.channel,
                                 req.request.limit)
                /\ IF Active(t)'
                   THEN /\ request' = [request EXCEPT ![t] = <<req>>]
                        /\ UNCHANGED <<response, requests>>
                   ELSE /\ Finish(t, req)
                        /\ request' = request
        /\ router' = router

\* A file operation of the inbox call of a send or poll handler completes; when
\* the call returns with it, the handler replies.
HandlerStep(t) ==
    /\ request[t] # NoRequest
    /\ Step(t)
    /\ router' = router
    /\ IF Active(t)'
       THEN UNCHANGED <<request, response, requests>>
       ELSE /\ Finish(t, request[t][1])
            /\ request' = [request EXCEPT ![t] = NoRequest]

----------------------------------------------------------------------------
(* The requests the server receives *)

MaxRequests == 3

inbox_vars == <<index, files, task, drawn, started, polled, added, delivered, last>>

\* Request<B> = { public_key, proof_seed, proof_sign, request }
Envelope(verb, public_key, proof_seed, proof_sign, body) ==
    [verb |-> verb, public_key |-> public_key, proof_seed |-> proof_seed,
     proof_sign |-> proof_sign, request |-> body]

\* Request::new(client_secret, body), with the seed it has drawn.
Request_new(verb, client_secret, proof_seed, body) ==
    Envelope(verb, client_secret, proof_seed,
             create_signature(client_secret, to_be_bytes(proof_seed)), body)

\* Requests of the client r1 whose proof is the signature of another key, or
\* is no signature at all.
BadlySigned(verb, body) ==
    {Envelope(verb, "r1", 1, create_signature(ServerKey, to_be_bytes(1)), body),
     Envelope(verb, "r1", 1, Malformed, body)}

\* The requests of a verb: well signed by r1 and by r2, and badly signed.
Variants(verb, body) ==
    {Request_new(verb, "r1", 1, body), Request_new(verb, "r2", 1, body)}
    \cup BadlySigned(verb, body)

\* A connection certificate: a signature of the client over the public key of
\* a server.
Certificate(client_secret, server_public) ==
    create_signature(client_secret, <<server_public>>)

ConnectRequestBody(certificate, client) ==
    [certificate |-> certificate, client |-> client]

ConnectRequests ==
    UNION {Variants("connect", ConnectRequestBody(Certificate(k, ServerKey), "Thick"))
             : k \in Keys}
    \cup {Request_new("connect", "r1", 1, ConnectRequestBody(c, "Thin")) :
             c \in {Certificate("r1", ServerKey), Certificate("r1", "sv1"),
                    Certificate("r2", ServerKey), Malformed}}

DisconnectRequests ==
    Variants("disconnect", EmptyBody)
    \cup {Request_new("disconnect", "r1", 2, EmptyBody)}

AnnounceRequests ==
    {Request_new("announce", "r1", 1, body) :
        body \in {[announced |-> "Client",
                   client |-> Client("r2", Certificate("r2", "sv1"), "Thick"),
                   server |-> "sv1"],
                  [announced |-> "Server", server |-> "sv1"],
                  [announced |-> "Server", server |-> "sv2"]}}
    \cup BadlySigned("announce", [announced |-> "Server", server |-> "sv1"])

LookupRequestBody(public_key, client_type) ==
    [public_key |-> public_key, client_type |-> client_type]

LookupRequests ==
    {Request_new("lookup", "r1", 1, LookupRequestBody("r1", client_type)) :
        client_type \in ClientTypes}
    \cup {Request_new("lookup", "r2", 1, LookupRequestBody("r2", "Thin"))}
    \cup {Request_new("lookup", "r2", 1, LookupRequestBody("r1", "Thin"))}
    \cup BadlySigned("lookup", LookupRequestBody("r1", "Thin"))

SendRequests ==
    {Request_new("send", "r2", 1, body) :
        body \in {[sender |-> "s1", receiver_public |-> "r1", channel |-> "a",
                   message |-> "m1"],
                  [sender |-> "r2", receiver_public |-> "r1", channel |-> "a",
                   message |-> "m1"]}}
    \cup BadlySigned("send", [sender |-> "s1", receiver_public |-> "r1",
                              channel |-> "a", message |-> "m1"])

PollRequests ==
    {Request_new("poll", "r1", 1, [channel |-> channel, limit |-> None]) :
        channel \in {"a", "a/."}}
    \cup BadlySigned("poll", [channel |-> "a", limit |-> None])

\* The requests that have been received and not yet answered.
InFlight == Cardinality({t \in Tasks : request[t] # NoRequest})

\* The handler of a new request runs on the first task that is free.
FirstIdle(t) == ~Active(t) /\ \A u \in Tasks : u < t => Active(u)

\* The server handles requests; the handlers of two poll requests may overlap
\* at the file operations of the inbox.
NextServer ==
    /\ \/ /\ requests + InFlight < MaxRequests
          /\ \A t \in Tasks : Active(t) => task[t].op = "poll"
          /\ \/ /\ \/ \E failing \in BOOLEAN : GetClients(failing)
                   \/ \E failing \in BOOLEAN : GetServers(failing)
                   \/ \E req \in ConnectRequests, failing \in BOOLEAN :
                          PostConnect(req, failing)
                   \/ \E req \in DisconnectRequests, failing \in BOOLEAN :
                          PostDisconnect(req, failing)
                   \/ \E req \in AnnounceRequests, failing \in BOOLEAN :
                          PostAnnounce(req, failing)
                   \/ \E req \in LookupRequests,
                         failing \in {"", "lookup_local_client", "lookup_remote_client",
                                      "lookup_remote_client_hint"} :
                          PostLookup(req, failing)
                /\ UNCHANGED inbox_vars
             \/ \E req \in SendRequests : InFlight = 0 /\ PostSend(1, req)
             \/ \E t \in Tasks, req \in PollRequests : FirstIdle(t) /\ PostPoll(t, req)
       \/ \E t \in Tasks : HandlerStep(t)
    /\ UNCHANGED <<conversion_vars, forward_vars>>

SpecServer == Init /\ [][NextServer]_vars

----------------------------------------------------------------------------
(* Properties of the replies *)

PostVerbs == {"connect", "disconnect", "announce", "lookup", "send", "poll"}

Status == response.response.status

\* The last reply answers a POST request that validated.
Validated == response.verb \in PostVerbs /\ ~Rejected(response.validated)

\* C12: whenever the validation of a POST request does not succeed, validate
\* returning false or returning an error, the status of the reply is
\* RequestValidationFailed.
C12_ValidationFailureStatus ==
    (response.verb \in PostVerbs /\ Rejected(response.validated)) =>
        Status = "RequestValidationFailed"

\* The MessageInfo records the Ok polls have returned so far.
DeliveredInfos ==
    UNION {{delivered[f][i].info : i \in 1..Len(delivered[f])} : f \in Folders}

C14_ReadVerbErrors ==
    (response.verb \in {"clients", "servers"}) =>
        /\ response.failed => Status = "ServerError"
        /\ Status = "Success" =>
              /\ ~response.failed
              /\ response.response.body[1] =
                    IF response.verb = "clients" THEN local_clients(router)
                    ELSE servers(router)

\* C15: every Success reply of a POST handler is signed with the secret key
\* of the server over the proof_seed of the request it answers: validate
\* (proof_seed) of the reply returns true and its public key is the server's.
C15_SuccessIsSigned ==
    (response.verb \in PostVerbs /\ Status = "Success") =>
        /\ Response_validate(response.response, response.request[1].proof_seed)
             = Ok(TRUE)
        /\ response.response.public_key = <<ServerKey>>

\* A Success reply to a disconnect request that carries the seed 2.
C15_Witness ==
    /\ response.verb = "disconnect" /\ Status = "Success"
    /\ response.request[1].proof_seed = 2
    /\ response.response.proof_sign[1].data = to_be_bytes(2)

\* The certificate of a connect request is a signature by the requester over
\* the public key of this server.
CertificateVerifies(req) ==
    /\ req.request.certificate.wellformed
    /\ req.request.certificate = Certificate(req.public_key, ServerKey)

\* C16: the connect handler calls index_local_client for the requester if and
\* only if the certificate of the request is a signature by the requester over
\* the public key of this server (the envelope being valid); when the
\* certificate does not verify the status is RequestValidationFailed and the
\* router is not called.
C16_ConnectCertificate ==
    (response.verb = "connect") =>
        LET req == response.request[1]
        IN  /\ Request_validate(req) = Ok(TRUE) =>
                  (response.calls = <<"index_local_client">> <=> CertificateVerifies(req))
            /\ ~CertificateVerifies(req) =>
                  /\ Status = "RequestValidationFailed"
                  /\ response.calls = <<>>

\* C17: the lookup handler replies Local only when lookup_local_client reports
\* available = true; when the local record does not match the type, or there
\* is none, it consults lookup_remote_client, replies Remote only when that is
\* available, and replies Hint with the hint list of the router otherwise.
C17_LookupCascade ==
    (response.verb = "lookup" /\ Status = "Success") =>
        LET body == response.response.body[1]
            req == response.request[1]
        IN  /\ body.kind \in {"Local", "Remote"} => body.available
            /\ body.kind # "Local" =>
                  "lookup_remote_client" \in
                      {response.calls[i] : i \in 1..Len(response.calls)}
            /\ body.kind = "Hint" =>
                  body.servers = lookup_remote_client_hint(
                      router, req.public_key, req.request.client_type)

\* The adds that returned Ok on the key (receiver, channel).
AddedTo(receiver, channel) ==
    UNION {{added[f][i].info : i \in {i \in 1..Len(added[f]) :
                /\ added[f][i].receiver = receiver
                /\ added[f][i].info.channel = channel}} : f \in Folders}

\* C18: the poll handler drains the inbox of the requester only: the messages
\* of a reply to a poll request were added for the receiver that is the public
\* key of the request, on the channel of the request.
C18_PollOwnInbox ==
    (response.verb = "poll" /\ Status = "Success") =>
        LET req == response.request[1]
            messages == response.response.body[1].messages
        IN  \A i \in 1..Len(messages) :
                messages[i] \in AddedTo(req.public_key, req.request.channel)

\* This step makes the reply to a request of the verb.
Replies(verb) == requests' = requests + 1 /\ response'.verb = verb

\* C19: the disconnect handler removes from local_clients the key that signed
\* the request and nothing else, and is idempotent: a disconnect by a key that
\* is not connected (any more) is answered Success and leaves the router as it
\* is.  A request that is rejected does not change the router.
C19_DisconnectOwnKey ==
    [][Replies("disconnect") =>
         LET key == response'.request[1].public_key
         IN  IF Validated' /\ ~response'.failed
             THEN /\ Status' = "Success"
                  /\ router'.local_clients =
                       [router.local_clients EXCEPT ![key] = None]
                  /\ router'.remote_clients = router.remote_clients
                  /\ router'.servers = router.servers
                  /\ router.local_clients[key] = None => router' = router
             ELSE router' = router]_vars

\* Two clients were connected and one of them has disconnected: the other one
\* is still connected.
C19_Witness ==
    /\ response.verb = "disconnect" /\ Status = "Success"
    /\ router.local_clients[response.request[1].public_key] = None
    /\ \E k \in Keys : router.local_clients[k] # None

\* The request answered in this step is the one answered just before, both
\* requests validated and no driver call returned an error; the inbox call of
\* the handler, if it made one, overlapped no other.
RepeatedRequest(verbs) ==
    /\ requests' = requests + 1
    /\ response'.verb \in verbs
    /\ response'.request = response.request
    /\ Validated /\ Validated'
    /\ ~response.failed /\ ~response'.failed
    /\ response'.verb = "poll" => (last' # last /\ last'.ov = {})

\* C20 as stated: every verb other than send is idempotent: handling a valid
\* request a second time leaves the router as it is and makes a reply with the
\* same body.
C20_AllButSendIdempotent ==
    [][RepeatedRequest({"connect", "disconnect", "announce", "lookup", "poll"}) =>
          /\ router' = router
          /\ response'.response.body = response.response.body]_vars

\* C20: connect, disconnect, announce and lookup are idempotent: handling a
\* valid request a second time in succession leaves the router and the inbox
\* as they are and makes the same reply.
C20_RouterVerbsIdempotent ==
    [][RepeatedRequest({"connect", "disconnect", "announce", "lookup"}) =>
          /\ router' = router
          /\ index' = index /\ files' = files
          /\ response'.response = response.response]_vars

\* A connect request was answered Success twice in succession.
C20_Witness ==
    /\ response.verb = "connect" /\ response.repeated
    /\ Status = "Success"
    /\ router.local_clients[response.request[1].public_key] # None

----------------------------------------------------------------------------
(* Retried sends *)

\* C21: when the same message is added twice to one (receiver, channel) and
\* no poll has been made, the two adds have separate ids, both ids are in the
\* index and both message files exist: no add_message overwrites, hides or
\* drops what an earlier add_message stored.
C21_RetryStoresBoth ==
    (Quiescent /\ polled = 0) =>
        \A f \in Folders : \A i, j \in 1..Len(added[f]) :
            (/\ i < j
             /\ added[f][i].info.sender = added[f][j].info.sender
             /\ added[f][i].info.message = added[f][j].info.message) =>
                /\ added[f][i].id # added[f][j].id
                /\ {added[f][i].id, added[f][j].id} \subseteq IndexedIds(f)
                /\ Exists(files[f][added[f][i].id])
                /\ Exists(files[f][added[f][j].id])

----------------------------------------------------------------------------
(* Properties of the router behind the verbs *)

\* The key is in local_clients: its last connect was answered Success and no
\* disconnect of it has been answered Success since.
Connected(public_key) == router.local_clients[public_key] # None

\* The reply made last answers a lookup that validated and did not fail.
LookupAnswered == response.verb = "lookup" /\ Status = "Success"

\* C22: read-your-writes through the verbs.  A lookup for a key pk with client
\* type Thin, made while pk is connected, returns Local with the client of pk;
\* a lookup for a key that is not connected does not return Local.
C22_ReadYourWrites ==
    LookupAnswered =>
        LET req == response.request[1]
            pk == req.request.public_key
            body == response.response.body[1]
        IN  /\ (Connected(pk) /\ req.request.client_type = "Thin") =>
                  /\ body.kind = "Local"
                  /\ body.client.public_key = pk
            /\ ~Connected(pk) => body.kind # "Local"

\* The same for the lookups a client makes for its own key.
C22_OwnKey ==
    (LookupAnswered /\ response.request[1].request.public_key
                          = response.request[1].public_key) => C22_ReadYourWrites

\* This step handles a request that announces a client.
AnnouncesClient ==
    /\ requests' # requests
    /\ response'.verb = "announce"
    /\ response'.response.status = "Success"
    /\ response'.request[1].request.announced = "Client"

\* C23: after any sequence of connect, announce and disconnect requests no
\* public key is in local_clients and in remote_clients at the same time, and
\* announcing a client whose key is in local_clients leaves the router as it
\* is.
C23_LocalRemoteDisjoint ==
    [][/\ \A k \in Keys : ~(/\ router'.local_clients[k] # None
                            /\ router'.remote_clients[k] # None)
       /\ (/\ AnnouncesClient
           /\ Connected(response'.request[1].request.client.public_key))
          => router' = router]_vars

\* A client whose key is connected was announced as the client of another
\* server, the announce was answered Success and the key has no remote record.
C23_Witness ==
    /\ response.verb = "announce" /\ Status = "Success"
    /\ response.request[1].request.announced = "Client"
    /\ Connected(response.request[1].request.client.public_key)
    /\ router.remote_clients[response.request[1].request.client.public_key] = None

----------------------------------------------------------------------------
(* Calls of the port forwarder *)

\* Calls of the forwarder in one behaviour.
MaxForwards == 3

\* A call of the forwarder returns: the table, the gateway and the history
\* take up its outcome.
Returned(op, port, protocol, outcome) ==
    /\ forwarded' = outcome.fw.forwarded
    /\ gateway' = outcome.fw.gateway
    /\ created' = outcome.fw.created
    /\ forward' = [op |-> op, port |-> port, protocol |-> protocol,
                   result |-> outcome.result, count |-> forward.count + 1]

Open(port, protocol, duration, failing) ==
    Returned("open", port, protocol,
             open(Forwarder, port, protocol, duration, failing))

Close(port, protocol, failing) ==
    Returned("close", port, protocol, close(Forwarder, port, protocol, failing))

\* The mappings of the configs in the table.
Forwarded ==
    {MappingOf(forwarded[k][1]) : k \in {k \in ForwardKeys : forwarded[k] # None}}

Discard(deleted) ==
    /\ deleted \subseteq Forwarded
    /\ Returned("discard", 0, "", discard(Forwarder, deleted))

\* Calls of open, close and discard, made one after another; any request to
\* the gateway may fail.
NextForward ==
    /\ forward.count < MaxForwards
    /\ \/ \E port \in Ports, protocol \in Protocols, duration \in Durations,
            failing \in BOOLEAN \X BOOLEAN :
              Open(port, protocol, duration, failing)
       \/ \E port \in Ports, protocol \in Protocols, failing \in BOOLEAN :
              Close(port, protocol, failing)
       \/ \E deleted \in SUBSET Mappings : Discard(deleted)
    /\ UNCHANGED <<inbox_vars, server_vars, conversion_vars>>

SpecForward == Init /\ [][NextForward]_vars

\* The call that returns in this step is a close that returns Ok(true).
ClosedOk ==
    /\ forward'.count # forward.count
    /\ forward'.op = "close"
    /\ forward'.result = Ok(TRUE)

\* After the close, the table has no entry for its port and protocol and the
\* deletion of every mapping the opens of that port and protocol created has
\* been requested.
Undone ==
    /\ forwarded'[<<forward'.port, forward'.protocol>>] = None
    /\ created'[<<forward'.port, forward'.protocol>>] = {}

\* C28: for every port and every protocol of TCP, UDP and Both, a
\* close(port, protocol) that returns Ok(true) after an open(port, protocol,
\* duration) returned Ok(true) leaves no entry for the port and protocol in the
\* forwarded table and has requested the deletion of every mapping the open
\* created.
C28_CloseUndoesOpen == [][ClosedOk => Undone]_vars

\* The same for the protocols TCP and UDP alone.
C28_SingleProtocol ==
    [][(ClosedOk /\ forward'.protocol # "Both") => Undone]_vars

----------------------------------------------------------------------------
(* The proof of a response *)

\* Secret keys of servers.
SecretKeys == {ServerKey, "sv1"}

\* Proof seeds: u64 values that differ in one or in several of their bytes.
Seeds == {0, 1, 255, 256, 257, 65536}

\* A server key, the seed of a request and the seed a client checks the
\* response against.
InitProof ==
    /\ InitServer
    /\ InitForwarder
    /\ \E server_secret \in SecretKeys, proof_seed \in Seeds, checked \in Seeds :
          conversion = [of       |-> "DisconnectResponse",
                        stage    |-> "input",
                        secret   |-> server_secret,
                        seed     |-> proof_seed,
                        checked  |-> checked,
                        response |-> <<>>,
                        valid    |-> <<>>]

\* DisconnectResponse::success(ResponseStatus::Success, server_secret, proof_seed)
Succeed ==
    /\ conversion.stage = "input"
    /\ conversion' = [conversion EXCEPT
                        !.stage = "response",
                        !.response = <<success("Success", conversion.secret,
                                               conversion.seed, EmptyBody)>>]

\* DisconnectResponse::validate(proof_seed) on the response
Validate ==
    /\ conversion.stage = "response"
    /\ conversion' = [conversion EXCEPT
                        !.stage = "validated",
                        !.valid = <<Response_validate(conversion.response[1],
                                                      conversion.checked)>>]

NextProof ==
    /\ Succeed \/ Validate
    /\ UNCHANGED <<inbox_vars, server_vars, forward_vars>>

SpecProof == InitProof /\ [][NextProof]_vars

----------------------------------------------------------------------------
(* JSON forms of the bodies *)

\* json!({}): the JSON object without members.
EmptyObject == <<>>

\* pub struct DisconnectRequestBody;
DisconnectRequestBody == [type |-> "DisconnectRequestBody"]

\* impl AsJson for DisconnectRequestBody
DisconnectRequestBody_to_json(body) == Ok(EmptyObject)

DisconnectRequestBody_from_json(json) == Ok(DisconnectRequestBody)

\* pub struct ConnectResponseBody;
ConnectResponseBody == [type |-> "ConnectResponseBody"]

\* impl AsJson for ConnectResponseBody
ConnectResponseBody_to_json(body) == Ok(EmptyObject)

ConnectResponseBody_from_json(json) == Ok(ConnectResponseBody)

\* received_at: u64
Timestamps == {0, 1, 2, U64_MAX}

\* The MessageInfo values converted.
MessageInfos ==
    [sender : {"s1", "s2"}, channel : Channels, message : Messages,
     received_at : Timestamps]

\* AsJson::to_json of the type named.
to_json(type, x) ==
    CASE type = "MessageInfo" -> Ok(MessageInfo_to_json(x))
      [] type = "DisconnectRequestBody" -> DisconnectRequestBody_to_json(x)
      [] type = "ConnectResponseBody" -> ConnectResponseBody_to_json(x)

\* AsJson::from_json of the type named.
from_json(type, json) ==
    CASE type = "MessageInfo" ->
            IF MessageInfo_from_json_ok(json) THEN Ok(MessageInfo_from_json(json))
            ELSE Err
      [] type = "DisconnectRequestBody" -> DisconnectRequestBody_from_json(json)
      [] type = "ConnectResponseBody" -> ConnectResponseBody_from_json(json)

\* A value of one of the three types.
InitJson ==
    /\ InitServer
    /\ InitForwarder
    /\ \E type \in {"MessageInfo", "DisconnectRequestBody", "ConnectResponseBody"} :
       \E x \in CASE type = "MessageInfo" -> MessageInfos
                  [] type = "DisconnectRequestBody" -> {DisconnectRequestBody}
                  [] type = "ConnectResponseBody" -> {ConnectResponseBody} :
          conversion = [of |-> type, stage |-> "value", input |-> x,
                        json |-> Err, output |-> Err]

\* x.to_json()
ToJson ==
    /\ conversion.stage = "value"
    /\ conversion' = [conversion EXCEPT
                        !.stage = "json",
                        !.json = to_json(conversion.of, conversion.input)]

\* T::from_json(&json), when to_json returned Ok
FromJson ==
    /\ conversion.stage = "json"
    /\ conversion.json.ok
    /\ conversion' = [conversion EXCEPT
                        !.stage = "decoded",
                        !.output = from_json(conversion.of, conversion.json.value[1])]

NextJson ==
    /\ ToJson \/ FromJson
    /\ UNCHANGED <<inbox_vars, server_vars, forward_vars>>

SpecJson == InitJson /\ [][NextJson]_vars

\* C25: JSON round trip.  For every MessageInfo, DisconnectRequestBody and
\* ConnectResponseBody x, to_json(x) succeeds and from_json of it succeeds and
\* equals x; a MessageInfo keeps its sender, channel, message and received_at.
C25_JsonRoundTrip ==
    /\ conversion.stage = "json" => conversion.json.ok
    /\ conversion.stage = "decoded" =>
          /\ conversion.output = Ok(conversion.input)
          /\ conversion.of = "MessageInfo" =>
                LET m == conversion.input
                    n == conversion.output.value[1]
                IN  /\ n.sender = m.sender
                    /\ n.channel = m.channel
                    /\ n.message = m.message
                    /\ n.received_at = m.received_at

\* A MessageInfo with the largest time and a channel name with a separator
\* has been converted to JSON and back.
C25_Witness ==
    /\ conversion.of = "MessageInfo"
    /\ conversion.stage = "decoded"
    /\ conversion.output.ok
    /\ conversion.input.received_at = U64_MAX
    /\ conversion.input.channel = "a/."

----------------------------------------------------------------------------
(* Addresses, address.rs *)

\* A string is the sequence of the pieces it is made of: scheme words, the
\* separator "://", type prefixes, public keys in base64 and other text.
Separator == "://"

\* The base64 texts of the valid public keys.
PublicKeyTexts == {"pk1", "pk2"}

\* str::split_once("://"): the text before and the text after the first
\* separator, or None when there is none.
split_once(string) ==
    LET at == {i \in 1..Len(string) : string[i] = Separator}
    IN  IF at = {} THEN None
        ELSE LET first == CHOOSE i \in at : \A j \in at : i <= j
             IN  Some(<<SubSeq(string, 1, first - 1),
                        SubSeq(string, first + 1, Len(string))>>)

\* A strip_prefix that finds no prefix.
strip_prefix_never(string, prefix) == None

\* str::strip_prefix: the text after the prefix, or None.
strip_prefix(string, prefix) ==
    IF string # <<>> /\ string[1] = prefix THEN Some(Tail(string)) ELSE None

\* PublicKey::from_base64: an error unless the text is that of a public key.
PublicKey_from_base64(string) ==
    IF Len(string) = 1 /\ string[1] \in PublicKeyTexts THEN Ok(string[1]) ELSE Err

\* Ok(Self::Hyperborea { public_key: PublicKey::from_base64(address)?, client_type })
Hyperborea(address, client_type) ==
    LET public_key == PublicKey_from_base64(address)
    IN  IF ~public_key.ok THEN Err
        ELSE Ok([kind |-> "Hyperborea", public_key |-> public_key.value[1],
                 client_type |-> client_type])

\* impl FromStr for Address, lines 69-139
from_str(uri) ==
    LET split == unwrap_or(split_once(uri), <<<<>>, uri>>)
        protocol == split[1]
        address == split[2]
    IN  CASE protocol \in {<<"hyperborea">>, <<"hyp">>} ->
               IF strip_prefix(address, "thin:") # None
               THEN Hyperborea(strip_prefix(address, "thin:")[1], "Thin")
               ELSE IF strip_prefix(address, "thick:") # None
               THEN Hyperborea(strip_prefix(address, "thick:")[1], "Thick")
               ELSE IF strip_prefix(address, "server:") # None
               THEN Hyperborea(strip_prefix(address, "server:")[1], "Server")
               ELSE IF strip_prefix(address, "file:") # None
               THEN Hyperborea(strip_prefix(address, "file:")[1], "File")
               ELSE Hyperborea(address, "Thin")
          [] protocol \in {<<"hyperborea-client">>, <<"hyp-client">>} ->
               Hyperborea(address, "Thin")
          [] protocol \in {<<"hyperborea-server">>, <<"hyp-server">>} ->
               Hyperborea(address, "Server")
          [] protocol \in {<<"hyperborea-file">>, <<"hyp-file">>} ->
               Hyperborea(address, "File")
          [] protocol = <<"http">> -> Ok([kind |-> "Http", address |-> address])
          [] protocol = <<"https">> -> Ok([kind |-> "Https", address |-> address])
          [] OTHER -> Ok([kind |-> "Raw", address |-> address])

\* pub fn parse(uri)
parse(uri) == from_str(uri)

\* The words before the separator: the schemes of the table, and others.
HyperboreaSchemes == {"hyperborea", "hyp"}

SuffixedSchemes ==
    {"hyperborea-client", "hyp-client", "hyperborea-server", "hyp-server",
     "hyperborea-file", "hyp-file"}

HttpSchemes == {"http", "https"}

Schemes == HyperboreaSchemes \cup SuffixedSchemes \cup HttpSchemes \cup {"ftp", "HYP"}

TypePrefixes == {"thin:", "thick:", "server:", "file:"}

\* A URI made of a scheme, a separator, a type prefix and a rest, each of
\* which may be missing.
InitAddress ==
    /\ InitServer
    /\ InitForwarder
    /\ \E scheme \in {<<>>} \cup {<<w>> : w \in Schemes},
          separator \in {<<>>, <<Separator>>},
          prefix \in {<<>>} \cup {<<w>> : w \in TypePrefixes},
          rest \in {<<>>, <<"example.org">>, <<"example.org", Separator, "pk1">>}
                   \cup {<<k>> : k \in PublicKeyTexts} :
          conversion = [of        |-> "Address",
                        stage     |-> "uri",
                        scheme    |-> scheme,
                        separator |-> separator,
                        prefix    |-> prefix,
                        rest      |-> rest,
                        input     |-> scheme \o separator \o prefix \o rest,
                        output    |-> Err]

\* parse(uri)
Parse ==
    /\ conversion.stage = "uri"
    /\ conversion' = [conversion EXCEPT !.stage = "parsed",
                                        !.output = parse(conversion.input)]

NextAddress ==
    /\ Parse
    /\ UNCHANGED <<inbox_vars, server_vars, forward_vars>>

SpecAddress == InitAddress /\ [][NextAddress]_vars

\* The client type a type prefix selects.
PrefixType(prefix) ==
    CASE prefix = <<>> -> "Thin"
      [] prefix = <<"thin:">> -> "Thin"
      [] prefix = <<"thick:">> -> "Thick"
      [] prefix = <<"server:">> -> "Server"
      [] prefix = <<"file:">> -> "File"

\* The client type a suffixed scheme selects.
SchemeType(scheme) ==
    CASE scheme \in {"hyperborea-client", "hyp-client"} -> "Thin"
      [] scheme \in {"hyperborea-server", "hyp-server"} -> "Server"
      [] scheme \in {"hyperborea-file", "hyp-file"} -> "File"

\* The URI is a scheme of the given set, the separator and what follows.
HasScheme(schemes) ==
    /\ conversion.separator = <<Separator>>
    /\ Len(conversion.scheme) = 1
    /\ conversion.scheme[1] \in schemes

\* What follows the type prefix is the text of a valid public key.
HasKey == Len(conversion.rest) = 1 /\ conversion.rest[1] \in PublicKeyTexts

\* C26: URI parsing maps the scheme to the client type for every valid public
\* key.  hyperborea:// and hyp:// give Thin unless the address starts with
\* thin:, thick:, server: or file:, which select that type; the -client
\* schemes give Thin, the -server schemes Server, the -file schemes File;
\* http:// and https:// give Http and Https with the text after "://"; every
\* other input, one without "://" included, gives Raw.
C26_SchemeSelectsType ==
    conversion.stage = "parsed" =>
        /\ (HasScheme(HyperboreaSchemes) /\ HasKey) =>
              conversion.output =
                  Ok([kind |-> "Hyperborea", public_key |-> conversion.rest[1],
                      client_type |-> PrefixType(conversion.prefix)])
        /\ (HasScheme(SuffixedSchemes) /\ conversion.prefix = <<>> /\ HasKey) =>
              conversion.output =
                  Ok([kind |-> "Hyperborea", public_key |-> conversion.rest[1],
                      client_type |-> SchemeType(conversion.scheme[1])])
        /\ HasScheme({"http"}) =>
              conversion.output =
                  Ok([kind |-> "Http",
                      address |-> conversion.prefix \o conversion.rest])
        /\ HasScheme({"https"}) =>
              conversion.output =
                  Ok([kind |-> "Https",
                      address |-> conversion.prefix \o conversion.rest])
        /\ ~HasScheme(HyperboreaSchemes \cup SuffixedSchemes \cup HttpSchemes) =>
              /\ conversion.output.ok
              /\ conversion.output.value[1].kind = "Raw"

\* hyp://thick:<public key> has been parsed to a thick client.
C26_Witness ==
    /\ conversion.stage = "parsed"
    /\ conversion.input = <<"hyp", Separator, "thick:", "pk1">>
    /\ conversion.output.ok
    /\ conversion.output.value[1].client_type = "Thick"

----------------------------------------------------------------------------
(* The standard of an owned node, node/owned/standard.rs *)

\* Length of the blobs decoded.
MaxBlobLen == 4

\* Length of the bytes of a secret key; stands for the 32 bytes of a
\* k256::SecretKey.
SecretKeyLen == 2

\* The values of a byte that are told apart.
ByteValues == {0, 1, 255}

\* The byte strings of a length.
ByteStrings(len) == [1..len -> ByteValues]

Blobs == UNION {ByteStrings(len) : len \in 0..MaxBlobLen}

\* k256::SecretKey::from_slice: the bytes are a scalar of the curve that is
\* not zero and is below the order of the curve, which the string of 255s is
\* not.
SecretKey_from_slice(bytes) ==
    IF /\ Len(bytes) = SecretKeyLen
       /\ \E i \in 1..Len(bytes) : bytes[i] # 0
       /\ \E i \in 1..Len(bytes) : bytes[i] # 255
    THEN Ok(bytes) ELSE Err

\* The secret keys.
K256SecretKeys ==
    {bytes \in ByteStrings(SecretKeyLen) : SecretKey_from_slice(bytes).ok}

\* k256::SecretKey::to_bytes
SecretKey_to_bytes(secret_key) == secret_key

\* Standard::V1 { secret_key }
V1(secret_key) == [standard |-> "V1", secret_key |-> secret_key]

\* Lines 20-34: Standard::to_bytes
to_bytes(standard) == <<0>> \o SecretKey_to_bytes(standard.secret_key)

\* A decoder that takes every version byte for version 0.
SupportedVersion_any(version, node_v1) == node_v1

\* Lines 39-41: the arm `0 =>` exists in builds with the feature node-v1.
SupportedVersion(version, node_v1) == node_v1 /\ version = 0

\* Lines 36-47: Standard::from_bytes.  bytes[0] of an empty blob panics.
from_bytes(bytes, node_v1) ==
    IF bytes = <<>> THEN [panicked |-> TRUE, result |-> Err]
    ELSE IF SupportedVersion(bytes[1], node_v1)
    THEN LET secret_key == SecretKey_from_slice(Tail(bytes))
         IN  [panicked |-> FALSE,
              result |-> IF secret_key.ok THEN Ok(V1(secret_key.value[1])) ELSE Err]
    ELSE [panicked |-> FALSE, result |-> Err]

\* A blob found on disk, or a Standard of a build with node-v1.
InitStandard ==
    /\ InitServer
    /\ InitForwarder
    /\ \/ \E blob \in Blobs, node_v1 \in BOOLEAN :
             conversion = [of |-> "Standard", stage |-> "blob", node_v1 |-> node_v1,
                           standard |-> None, blob |-> blob,
                           output |-> [panicked |-> FALSE, result |-> Err]]
       \/ \E secret_key \in K256SecretKeys :
             conversion = [of |-> "Standard", stage |-> "standard", node_v1 |-> TRUE,
                           standard |-> Some(V1(secret_key)), blob |-> <<>>,
                           output |-> [panicked |-> FALSE, result |-> Err]]

\* standard.to_bytes()
ToBytes ==
    /\ conversion.stage = "standard"
    /\ conversion' = [conversion EXCEPT !.stage = "blob",
                                        !.blob = to_bytes(conversion.standard[1])]

\* Standard::from_bytes(blob)
FromBytes ==
    /\ conversion.stage = "blob"
    /\ conversion' = [conversion EXCEPT
                        !.stage = "decoded",
                        !.output = from_bytes(conversion.blob, conversion.node_v1)]

NextStandard ==
    /\ ToBytes \/ FromBytes
    /\ UNCHANGED <<inbox_vars, server_vars, forward_vars>>

SpecStandard == InitStandard /\ [][NextStandard]_vars

\* C27: Standard::from_bytes returns an error, and no Standard, for every blob
\* whose leading version byte is not a supported version (any byte other than
\* 0 in a build with node-v1, any byte in a build without), and
\* from_bytes(to_bytes(s)) returns s for every Standard s.
C27_RejectsUnknownVersions ==
    conversion.stage = "decoded" =>
        /\ (/\ conversion.blob # <<>>
            /\ ~(conversion.node_v1 /\ conversion.blob[1] = 0)) =>
              /\ ~conversion.output.panicked
              /\ conversion.output.result = Err
        /\ conversion.standard # None =>
              conversion.output.result = Ok(conversion.standard[1])

\* A blob with version byte 1 followed by the bytes of a secret key has been
\* rejected by a build with node-v1.
C27_Witness ==
    /\ conversion.stage = "decoded"
    /\ conversion.node_v1
    /\ conversion.blob = <<1, 0, 1>>
    /\ conversion.output.result = Err

----------------------------------------------------------------------------
(* Properties of mixed adds and polls, and of polls that fail *)

\* C29: in every execution that mixes add_message and poll_messages calls,
\* made one after another with any limits on one (receiver, channel), the
\* results of the polls, put together in call order, are a prefix of the
\* sequence of the messages added, and every MessageInfo returned has the
\* sender, channel and message given to its add_message.
C29_PollsArePrefixOfAdds ==
    \A f \in Folders :
        /\ Len(delivered[f]) <= Len(added[f])
        /\ \A i \in 1..Len(delivered[f]) :
              /\ delivered[f][i].id = added[f][i].id
              /\ delivered[f][i].info.sender = added[f][i].info.sender
              /\ delivered[f][i].info.channel = added[f][i].info.channel
              /\ delivered[f][i].info.message = added[f][i].info.message
              /\ delivered[f][i].info = added[f][i].info

\* Two polls with a limit have each returned one of two different messages.
C29_Witness ==
    /\ IsPoll(last) /\ last.status = "Ok" /\ last.limit # None
    /\ Len(last.messages) = 1
    /\ Len(delivered[last.folder]) = 2
    /\ delivered[last.folder][1].info.message # delivered[last.folder][2].info.message

\* A part of the bytes of a JSON text.
Truncated(bytes) == [bytes EXCEPT !.complete = FALSE]

\* The file operations whose error the call returns with `?`: the writes of
\* add_message (lines 86 and 87), remove_file (line 136) and the write of the
\* index (line 144) of poll_messages.
Fallible == {"add_write_index", "add_write_message", "poll_remove_file",
             "poll_write_index"}

\* The file operation task t waits for fails and the call returns the error.
\* The operation changes no file, except that a write of a message file may
\* have written a part of it.
Fail(t) ==
    /\ Active(t)
    /\ task[t].pc \in Fallible
    /\ \E partial \in BOOLEAN :
          files' = IF partial /\ task[t].pc = "add_write_message"
                   THEN [files EXCEPT ![task[t].folder][task[t].message_id] =
                            File(Truncated(task[t].data[1]))]
                   ELSE files
    /\ Return(Ended(t, task[t], "Err", <<>>, 0))
    /\ task' = [task EXCEPT ![t] = Idle]
    /\ UNCHANGED <<index, drawn, started, polled>>

\* Calls made one after another, any file operation of which may fail.
NextFault ==
    /\ Call(1, {"a"}, Messages, Limits) \/ Step(1) \/ Fail(1)
    /\ UNCHANGED server_vars
    /\ UNCHANGED <<conversion_vars, forward_vars>>

SpecFault == Init /\ [][NextFault]_vars

\* C30: a poll_messages call that returns an error loses no message: every
\* message that was in the inbox before the call is, after it, still listed in
\* the index with its message file, so that a later poll can return it.
C30_FailedPollLosesNothing ==
    (IsPoll(last) /\ last.status = "Err") =>
        \A i \in 1..Len(last.pending) :
            /\ last.pending[i].id \in IndexedIds(last.folder)
            /\ Exists(files[last.folder][last.pending[i].id])

----------------------------------------------------------------------------
(* Draining an inbox *)

\* The inbox that is drained.
Drained == Folder("r1", "a")

\* limit >= 1 or None
DrainLimits == Limits \ {Some(0)}

\* A poll_messages call of the caller who repeats its polls without end: it
\* is not one of the polls counted.
Repoll(t) ==
    /\ \E limit \in DrainLimits : poll_read_index(t, "r1", "a", limit)
    /\ UNCHANGED polled

\* The steps of a repeated poll.
Drain(t) ==
    \/ Repoll(t)
    \/ Active(t) /\ task[t].op = "poll" /\ Step(t)

\* A write of add_message fails; no file operation of a poll does.
FailAdd(t) == Active(t) /\ task[t].op = "add" /\ Fail(t)

\* The add_message calls of the inbox, some of which fail.
Adding ==
    /\ \/ \E message \in Messages : add_message(1, "s1", "r1", "a", message)
       \/ Active(1) /\ task[1].op = "add" /\ Step(1)
       \/ FailAdd(1)
    /\ UNCHANGED <<server_vars, conversion_vars, forward_vars>>

\* The polls repeated on the inbox.
Polling ==
    /\ Drain(1)
    /\ UNCHANGED <<server_vars, conversion_vars, forward_vars>>

NextDrain == Adding \/ Polling

\* The caller goes on polling and the runtime goes on running a poll that has
\* started.
SpecDrain == Init /\ [][NextDrain]_vars /\ WF_vars(Polling)

\* No add_message call is running and none will start.
NoFurtherAdd == started = MaxAdds /\ ~Active(1)

\* The index of the inbox lists at least one id.
NonEmptyIndex == Exists(index[Drained]) /\ Len(Content(index[Drained])) > 0

\* A poll has returned remaining == 0 and the index is empty.
ReturnedEmpty ==
    /\ IsPoll(last) /\ last.folder = Drained
    /\ last.status = "Ok" /\ last.remaining = 0
    /\ ~NonEmptyIndex

\* Every message file of the inbox holds a complete MessageInfo.
Decodable ==
    \A i \in Ids :
        Exists(files[Drained][i]) => from_slice_ok(Content(files[Drained][i]))

\* C31: when no further add_message occurs and no file operation of a poll
\* fails, poll_messages calls with limit >= 1 or None, repeated on one
\* (receiver, channel), eventually return remaining == 0.
C31_DrainProgress == (NoFurtherAdd /\ NonEmptyIndex) ~> ReturnedEmpty

\* The same of an inbox all of whose message files can be decoded.
C31_DecodableDrains == (NoFurtherAdd /\ NonEmptyIndex /\ Decodable) ~> ReturnedEmpty

\* A poll that came upon a slot of the index, with limit >= 1 or None, and
\* has ended left the index shorter than it read it.
C31_PollRemovesSlot ==
    (IsPoll(last) /\ last.folder = Drained /\ last.limit # Some(0)
        /\ Len(last.index) > 0 /\ ~Active(1))
        => Len(Content(index[Drained])) < Len(last.index)

----------------------------------------------------------------------------
(* Requests that do not validate *)

\* The step is the reply to a POST request whose validate returned false or
\* an error.
RepliesRejection ==
    /\ requests' = requests + 1
    /\ response'.verb \in PostVerbs
    /\ ~response'.validated.ok \/ ~response'.validated.value[1]

\* C32: a POST request that is answered with RequestValidationFailed or with
\* the ServerError of a validation that returned an error makes no call to the
\* router or the inbox: local_clients, remote_clients, servers and every inbox
\* are the same after the request as before it.
C32_RejectionChangesNothing ==
    [][RepliesRejection =>
          /\ response'.calls = <<>>
          /\ response'.response.status \in {"RequestValidationFailed", "ServerError"}
          /\ router' = router
          /\ index' = index /\ files' = files
          /\ task' = task /\ started' = started /\ polled' = polled]_vars

\* A request that does not validate has been answered while the router knew a
\* client and an inbox held a message.
C32_Witness ==
    /\ response.verb \in {"connect", "send"}
    /\ ~response.validated.ok \/ ~response.validated.value[1]
    /\ response.calls = <<>>
    /\ local_clients(router) # {}
    /\ \E f \in Folders : Exists(index[f]) /\ Len(Content(index[f])) > 0

----------------------------------------------------------------------------
(* The sender of a stored message *)

\* sender.client.public_key: a Sender is named by the public key of its
\* client.
Sender_client_public_key(sender) == sender

\* The MessageInfo in the message file the add_message call that ended last
\* has written.
StoredByLast ==
    MessageInfo_from_json(from_slice(Content(files'[last'.folder][last'.ids[1]])))

\* The step is the Success reply to a send request.
RepliesSent ==
    /\ requests' = requests + 1
    /\ response'.verb = "send"
    /\ response'.response.status = "Success"

\* C33: for every message stored by the send verb, the sender recorded in the
\* stored MessageInfo is the party that signed the send envelope:
\* sender.client.public_key equals the public_key of the validated request.
C33_SenderIsRequester ==
    [][RepliesSent =>
          Sender_client_public_key(StoredByLast.sender)
              = response'.request[1].public_key]_vars

\* The MessageInfo a send has stored has the sender, receiver's channel and
\* message of the body of the request.
C33_SenderIsFromBody ==
    [][RepliesSent =>
          /\ last'.op = "add" /\ last'.status = "Ok"
          /\ StoredByLast.sender = response'.request[1].request.sender
          /\ StoredByLast.message = response'.request[1].request.message]_vars

----------------------------------------------------------------------------
(* AsJson of the primitive types, rest_api/mod.rs lines 126-191 *)

\* Elements of a Vec converted.
MaxVecLen == 2

\* serde_json::Value
JsonNull == [kind |-> "null"]

JsonNumber(n) == [kind |-> "number", number |-> n]

JsonString(string) == [kind |-> "string", string |-> string]

JsonArray(values) == [kind |-> "array", array |-> values]

\* The types impl_as_json! is called with (lines 186-191), one of each kind.
PrimitiveTypes == {"()", "u8", "u64", "i64", "String", "PathBuf"}

\* The unit value.
Unit == <<>>

\* The values of a primitive type that are converted.
ValuesOf(primitive) ==
    CASE primitive = "()"      -> {Unit}
      [] primitive = "u8"      -> {0, 255}
      [] primitive = "u64"     -> {0, 1, U64_MAX}
      [] primitive = "i64"     -> {0 - 1, 0, 1}
      [] primitive = "String"  -> {"", "a"}
      [] primitive = "PathBuf" -> {"", "a/."}

\* serde_json::to_value of a value of a primitive type: the JSON encoding of
\* the value.
to_value(primitive, x) ==
    CASE primitive = "()" -> JsonNull
      [] primitive \in {"u8", "u64", "i64"} -> JsonNumber(x)
      [] primitive \in {"String", "PathBuf"} -> JsonString(x)

\* serde_json::from_value::<T> of a primitive type T.
from_value(primitive, json) ==
    CASE primitive = "()" ->
            IF json.kind = "null" THEN Ok(Unit) ELSE Err
      [] primitive = "u8" ->
            IF json.kind = "number" /\ json.number \in 0..255
            THEN Ok(json.number) ELSE Err
      [] primitive = "u64" ->
            IF json.kind = "number" /\ json.number \in 0..U64_MAX
            THEN Ok(json.number) ELSE Err
      [] primitive = "i64" ->
            IF json.kind = "number" THEN Ok(json.number) ELSE Err
      [] primitive \in {"String", "PathBuf"} ->
            IF json.kind = "string" THEN Ok(json.string) ELSE Err

\* impl_as_json!: to_json (lines 166-168) is Ok(serde_json::to_value(())?),
\* whatever the value.
impl_as_json_to_json(primitive, x) == Ok(to_value("()", Unit))

\* impl_as_json!: from_json (lines 170-172) is
\* Ok(serde_json::from_value(json.clone())?).
impl_as_json_from_json(primitive, json) == from_value(primitive, json)

\* .collect::<Result<Vec<_>, _>>(): the values, or the first error.
collect(results) ==
    IF \A i \in 1..Len(results) : results[i].ok
    THEN Ok([i \in 1..Len(results) |-> results[i].value[1]])
    ELSE Err

\* impl<T: AsJson> AsJson for Vec<T>: to_json (lines 127-133)
Vec_to_json(primitive, vec) ==
    LET values == collect([i \in 1..Len(vec) |-> impl_as_json_to_json(primitive, vec[i])])
    IN  IF values.ok THEN Ok(JsonArray(values.value[1])) ELSE Err

\* impl<T: AsJson> AsJson for Vec<T>: from_json (lines 135-143)
Vec_from_json(primitive, json) ==
    IF json.kind # "array" THEN Err
    ELSE collect([i \in 1..Len(json.array) |->
                    impl_as_json_from_json(primitive, json.array[i])])

\* impl<T: AsJson> AsJson for Box<T> (lines 146-156)
Box_to_json(primitive, boxed) == impl_as_json_to_json(primitive, boxed)

Box_from_json(primitive, json) == impl_as_json_from_json(primitive, json)

\* The types converted: T, Vec<T> and Box<T> of a primitive type T.
Containers == {"T", "Vec<T>", "Box<T>"}

\* The JSON encoding of a value of one of these types.
Encoding(container, primitive, x) ==
    IF container = "Vec<T>"
    THEN JsonArray([i \in 1..Len(x) |-> to_value(primitive, x[i])])
    ELSE to_value(primitive, x)

\* The sequences of at most MaxVecLen values of a set.
VecsOf(values) == UNION {[1..n -> values] : n \in 0..MaxVecLen}

\* A value of one of the types.
InitPrimitive ==
    /\ InitServer
    /\ InitForwarder
    /\ \E container \in Containers, primitive \in PrimitiveTypes :
       \E x \in IF container = "Vec<T>" THEN VecsOf(ValuesOf(primitive))
                 ELSE ValuesOf(primitive) :
          conversion = [of |-> <<container, primitive>>, stage |-> "value",
                        input |-> x, json |-> Err, output |-> Err]

\* x.to_json()
PrimitiveToJson ==
    /\ conversion.stage = "value"
    /\ LET container == conversion.of[1]
           primitive == conversion.of[2]
       IN  conversion' = [conversion EXCEPT
              !.stage = "json",
              !.json = CASE container = "T" ->
                              impl_as_json_to_json(primitive, conversion.input)
                         [] container = "Vec<T>" ->
                              Vec_to_json(primitive, conversion.input)
                         [] container = "Box<T>" ->
                              Box_to_json(primitive, conversion.input)]

\* T::from_json(&json), when to_json returned Ok
PrimitiveFromJson ==
    /\ conversion.stage = "json"
    /\ conversion.json.ok
    /\ LET container == conversion.of[1]
           primitive == conversion.of[2]
           json == conversion.json.value[1]
       IN  conversion' = [conversion EXCEPT
              !.stage = "decoded",
              !.output = CASE container = "T" ->
                                impl_as_json_from_json(primitive, json)
                           [] container = "Vec<T>" ->
                                Vec_from_json(primitive, json)
                           [] container = "Box<T>" ->
                                Box_from_json(primitive, json)]

NextPrimitive ==
    /\ PrimitiveToJson \/ PrimitiveFromJson
    /\ UNCHANGED <<inbox_vars, server_vars, forward_vars>>

SpecPrimitive == InitPrimitive /\ [][NextPrimitive]_vars

\* C34: for the primitive types that impl_as_json! covers and for Vec<T> and
\* Box<T> over them, to_json(v) is the JSON encoding of v itself and
\* from_json(to_json(v)) = v for every value v.
C34_PrimitiveRoundTrip ==
    /\ conversion.stage # "value" =>
          conversion.json = Ok(Encoding(conversion.of[1], conversion.of[2],
                                        conversion.input))
    /\ conversion.stage = "decoded" =>
          /\ conversion.output.ok
          /\ conversion.output.value[1] = conversion.input

\* The same of the unit type, of Vec<()> and Box<()>, and of the empty Vec of
\* every type.
C34_UnitRoundTrip ==
    (conversion.of[2] = "()"
        \/ (conversion.of[1] = "Vec<T>" /\ Len(conversion.input) = 0)) =>
        C34_PrimitiveRoundTrip

\* to_json of every value is null, or an array of nulls.
C34_AlwaysNull ==
    conversion.stage # "value" =>
        conversion.json = Ok(Encoding(conversion.of[1], "()",
                                      IF conversion.of[1] = "Vec<T>"
                                      THEN [i \in 1..Len(conversion.input) |-> Unit]
                                      ELSE Unit))

----------------------------------------------------------------------------
(* Blobs that are too short *)

\* C35: Standard::from_bytes is total: for every byte sequence, the empty one
\* and a blob that holds only the version byte included, it returns Ok or Err
\* and never panics.
C35_FromBytesTotal ==
    conversion.stage = "decoded" => ~conversion.output.panicked

\* The same of the blobs that hold at least the version byte: a blob of the
\* version byte alone is answered with the error of SecretKey::from_slice.
C35_NonEmptyTotal ==
    (conversion.stage = "decoded" /\ conversion.blob # <<>>) =>
        /\ ~conversion.output.panicked
        /\ Len(conversion.blob) = 1 => conversion.output.result = Err

----------------------------------------------------------------------------
(* The table of the forwarder and the gateway *)

\* The table holds an entry for the port and protocol of a mapping.
HasEntry(mapping) == forwarded[mapping] # None

\* The mapping, which only this forwarder creates, is on the gateway.
IsOpen(mapping) == mapping \in gateway

\* C36: in every reachable state of UpnpPortForwarder, the states after an
\* open, close or discard that returned an error included, the forwarded
\* table holds an entry for (port, protocol) if and only if a mapping created
\* by this forwarder for that port and protocol has not been deleted on the
\* gateway; so discard can still reach every mapping that is open.
C36_TableMatchesGateway ==
    \A mapping \in Mappings : HasEntry(mapping) <=> IsOpen(mapping)

\* One half of it: the mapping of every entry of the table is on the gateway.
C36_EntriesAreOpen ==
    \A mapping \in Mappings : HasEntry(mapping) => IsOpen(mapping)

\* While every call has returned Ok the table and the gateway agree.
C36_AgreeUntilError ==
    [][(C36_TableMatchesGateway /\ forward'.result.ok)
          => C36_TableMatchesGateway']_vars

====
